---- MODULE Spec2Model ----
(***************************************************************************)
(* Verification model of the subs-check backend.                           *)
(*                                                                         *)
(* Part 1: internal/router (routes.go) -- the route / group descriptors,   *)
(* their builder operations, Route.Validate, and the registrar             *)
(* (Register, RegisterGroup and the helpers they call).                    *)
(*                                                                         *)
(* A route path is the sequence of its pieces: each "/" and each run of    *)
(* characters between two of them ("/api/sub" is <<"/", "api", "/", "sub">>*)
(* and "a" is <<"a">>); opaque strings (descriptions, handler names, error *)
(* messages) are TLA+ strings.  A gin.HandlerFunc is represented by its    *)
(* name.                                                                   *)
(*                                                                         *)
(* Part 2: the server (Server.Start and the handlers it registers), the    *)
(* content cache, the cron validator and the subscription repository.      *)
(***************************************************************************)
EXTENDS Integers, Sequences, FiniteSets, TLC

VARIABLES
    rheap,    \* builder: the allocated Route objects, indexed by pointer
    gheap,    \* builder: the allocated GroupRouter objects, indexed by pointer
    last,     \* builder: the last call made, with the receiver as it was before
    ret,      \* builder: the value the last call returned
    ncalls,   \* builder: number of calls made so far
    obj,      \* registrar: the handler object passed to Register / RegisterGroup
    op,       \* registrar: which entry point is running
    must,     \* registrar: entered through MustRegister / MustRegisterGroup
    pc,       \* registrar: position inside the entry point
    idx,      \* registrar: loop index (i, or the range position)
    engine,   \* registrar: the gin engine (groups created, bindings made)
    result,   \* registrar: what the entry point returned (or that it panicked)
    db,       \* the database behind database.DB (file and connection)
    cfg,      \* server: the configuration the server was made with
    srv,      \* server: what Start has done so far
    now,      \* server: the clock, in hours
    issued,   \* server: the JWT tokens Login has handed out
    loggedOut,\* server: the tokens a successful logout was made with
    req,      \* server: the request served last
    resp,     \* server: the response to it
    nreq,     \* server: number of requests served
    subContentStore,      \* cache: the map from subscription id to content
    subContentStoreMutex, \* cache: the RWMutex (writer inside, reader count)
    goroutines,           \* cache: the call each goroutine is making
    completed,            \* cache: what the calls that have returned stored
    cron,     \* validator: the expression given to ValidateCron, the error
    subcall,  \* subscription repository: the call made last and its error
    jwt,      \* JWTAuth: the request it was given and what it did
    fetch,    \* FetchSubContent: the request and the response
    txn,      \* WithTransaction: the call, the transaction and the outcome
    mig       \* RunMigrations: the database and the runs made on it

bvars == <<rheap, gheap, last, ret, ncalls>>
rvars == <<obj, op, must, pc, idx, engine, result>>
svars == <<cfg, srv, now, issued, loggedOut, req, resp, nreq>>
cvars == <<subContentStore, subContentStoreMutex, goroutines, completed>>
yvars == <<jwt, fetch, txn, mig>>
xvars == <<cvars, cron, subcall, yvars>>
ovars == <<db, svars, xvars>>
vars  == <<bvars, rvars, ovars>>

----------------------------------------------------------------------------
(* Bounds *)

MaxCalls == 4          \* builder calls per behaviour

----------------------------------------------------------------------------
(* Values *)

HasPrefix(s, p) == Len(s) >= Len(p) /\ SubSeq(s, 1, Len(p)) = p

IsPrefixOf(s, t) == Len(s) <= Len(t) /\ SubSeq(t, 1, Len(s)) = s

\* route paths: "", "a", "/a"
Paths == { <<>>, <<"a">>, <<"/", "a">> }

\* the Method constants of routes.go
GET == "GET"
POST == "POST"
PUT == "PUT"
DELETE == "DELETE"
HEAD == "HEAD"
OPTIONS == "OPTIONS"
PATCH == "PATCH"
ANY == "ANY"
KnownMethods == {GET, POST, PUT, DELETE, HEAD, OPTIONS, PATCH, ANY}

NoError == "nil"
ErrEmptyPath == "Route path cannot be empty"
ErrNoHandler == "Route must have at least one handler"

\* arguments the builder calls are made with
HandlerArgs == { <<"h1">>, <<"h2", "h3">> }
MiddlewareArgs == { <<"m1">>, <<"m2", "m3">> }
Descriptions == { "d1", "d2" }
BuilderMethods == { GET, POST }
GroupPaths == { <<"/", "u">> }

----------------------------------------------------------------------------
(* Descriptors and their builder operations *)

NewGroupRouter(path) ==
    [Path |-> path, Routes |-> <<>>, Middlewares |-> <<>>]

GroupUse(g, middlewares) ==
    [g EXCEPT !.Middlewares = @ \o middlewares]

AddRoute(g, route) ==
    [g EXCEPT !.Routes = Append(@, route)]

NewRoute(path, method) ==
    [Path |-> path, Method |-> method, Handlers |-> <<>>,
     Middlewares |-> <<>>, Description |-> ""]

\* Handle, were it to assign instead of append
Handle_Assign(r, handlers) ==
    [r EXCEPT !.Handlers = handlers]

Handle(r, handlers) ==
    [r EXCEPT !.Handlers = @ \o handlers]

RouteUse(r, middlewares) ==
    [r EXCEPT !.Middlewares = @ \o middlewares]

WithDescription(r, description) ==
    [r EXCEPT !.Description = description]

\* Validate, were it to look at the handlers first
Validate_HandlersFirst(r) ==
    IF Len(r.Handlers) = 0 THEN ErrNoHandler
    ELSE IF r.Path = <<>> THEN ErrEmptyPath
    ELSE NoError

Validate(r) ==
    IF r.Path = <<>> THEN ErrEmptyPath
    ELSE IF Len(r.Handlers) = 0 THEN ErrNoHandler
    ELSE NoError

----------------------------------------------------------------------------
(* SpecBuilder: a handler builds descriptors with the chain API and        *)
(* validates them.  Pointers are indices into rheap / gheap; a GroupRouter *)
(* holds pointers to its routes ([]*Route).                                *)

NoCall == [op |-> "none", target |-> 0, route |-> NewRoute(<<>>, GET),
           group |-> NewGroupRouter(<<>>), handlers |-> <<>>, text |-> ""]

NoRet == [kind |-> "none", ptr |-> 0, err |-> NoError]

\* outside the registrar and the builder nothing has been started
DbClosed == [open |-> FALSE, users |-> {}, subs |-> {}, nextSub |-> 1]

NoConfig == [ExpiresIn |-> 0, Mode |-> "release"]

NotStarted == [dbinit |-> "none", nreg |-> 0, listened |-> FALSE]

NoRequest ==
    [token |-> [user |-> [type |-> "absent", int |-> 0, frac |-> 0],
                 exp |-> 0, sig |-> "none"],
     protected |-> FALSE, revoked |-> FALSE, handler |-> "", conflict |-> FALSE,
     before |-> [id |-> 0, username |-> "", password |-> <<>>]]

NoResponse == [status |-> 0, message |-> ""]

ServerIdle ==
    /\ cfg = NoConfig
    /\ srv = NotStarted
    /\ now = 0
    /\ issued = {}
    /\ loggedOut = {}
    /\ req = NoRequest
    /\ resp = NoResponse
    /\ nreq = 0

\* an empty Go map
EmptyMap == [id \in {} |-> ""]

RWMutexFree == [w |-> FALSE, r |-> 0]

NoCron == [expr |-> <<>>, err |-> "none"]

NoSubCall == [op |-> "none", id |-> 0, url |-> "", err |-> "none",
              stored |-> FALSE, inserted |-> FALSE]

NotCalled == [pc |-> "none"]

MoreIdle ==
    /\ jwt = NotCalled
    /\ fetch = NotCalled
    /\ txn = NotCalled
    /\ mig = NotCalled

ExtrasIdle ==
    /\ MoreIdle
    /\ subContentStore = EmptyMap
    /\ subContentStoreMutex = RWMutexFree
    /\ goroutines = <<>>
    /\ completed = EmptyMap
    /\ cron = NoCron
    /\ subcall = NoSubCall

OthersIdle ==
    /\ db = DbClosed
    /\ ServerIdle
    /\ ExtrasIdle

RegistrarIdle ==
    /\ obj = [kind |-> "none"]
    /\ op = "none"
    /\ must = FALSE
    /\ pc = "idle"
    /\ idx = 0
    /\ engine = [Handlers |-> <<>>, groups |-> <<>>, bindings |-> <<>>]
    /\ result = [kind |-> "none"]

InitBuilder ==
    /\ rheap = <<>>
    /\ gheap = <<>>
    /\ last = NoCall
    /\ ret = NoRet
    /\ ncalls = 0
    /\ RegistrarIdle
    /\ OthersIdle

CallNewRoute ==
    \E path \in Paths, method \in BuilderMethods :
        /\ ncalls < MaxCalls
        /\ rheap' = Append(rheap, NewRoute(path, method))
        /\ ret' = [kind |-> "route", ptr |-> Len(rheap) + 1, err |-> NoError]
        /\ last' = [NoCall EXCEPT !.op = "NewRoute"]
        /\ ncalls' = ncalls + 1
        /\ UNCHANGED <<gheap, rvars, ovars>>

CallNewGroupRouter ==
    \E path \in GroupPaths :
        /\ ncalls < MaxCalls
        /\ gheap' = Append(gheap, NewGroupRouter(path))
        /\ ret' = [kind |-> "group", ptr |-> Len(gheap) + 1, err |-> NoError]
        /\ last' = [NoCall EXCEPT !.op = "NewGroupRouter"]
        /\ ncalls' = ncalls + 1
        /\ UNCHANGED <<rheap, rvars, ovars>>

CallHandle ==
    \E r \in DOMAIN rheap, handlers \in HandlerArgs :
        /\ ncalls < MaxCalls
        /\ rheap' = [rheap EXCEPT ![r] = Handle(@, handlers)]
        /\ ret' = [kind |-> "route", ptr |-> r, err |-> NoError]
        /\ last' = [NoCall EXCEPT !.op = "Handle", !.target = r,
                                  !.route = rheap[r], !.handlers = handlers]
        /\ ncalls' = ncalls + 1
        /\ UNCHANGED <<gheap, rvars, ovars>>

CallRouteUse ==
    \E r \in DOMAIN rheap, middlewares \in MiddlewareArgs :
        /\ ncalls < MaxCalls
        /\ rheap' = [rheap EXCEPT ![r] = RouteUse(@, middlewares)]
        /\ ret' = [kind |-> "route", ptr |-> r, err |-> NoError]
        /\ last' = [NoCall EXCEPT !.op = "RouteUse", !.target = r,
                                  !.route = rheap[r], !.handlers = middlewares]
        /\ ncalls' = ncalls + 1
        /\ UNCHANGED <<gheap, rvars, ovars>>

CallWithDescription ==
    \E r \in DOMAIN rheap, description \in Descriptions :
        /\ ncalls < MaxCalls
        /\ rheap' = [rheap EXCEPT ![r] = WithDescription(@, description)]
        /\ ret' = [kind |-> "route", ptr |-> r, err |-> NoError]
        /\ last' = [NoCall EXCEPT !.op = "WithDescription", !.target = r,
                                  !.route = rheap[r], !.text = description]
        /\ ncalls' = ncalls + 1
        /\ UNCHANGED <<gheap, rvars, ovars>>

CallGroupUse ==
    \E g \in DOMAIN gheap, middlewares \in MiddlewareArgs :
        /\ ncalls < MaxCalls
        /\ gheap' = [gheap EXCEPT ![g] = GroupUse(@, middlewares)]
        /\ ret' = [kind |-> "group", ptr |-> g, err |-> NoError]
        /\ last' = [NoCall EXCEPT !.op = "GroupUse", !.target = g,
                                  !.group = gheap[g], !.handlers = middlewares]
        /\ ncalls' = ncalls + 1
        /\ UNCHANGED <<rheap, rvars, ovars>>

CallAddRoute ==
    \E g \in DOMAIN gheap, r \in DOMAIN rheap :
        /\ ncalls < MaxCalls
        /\ gheap' = [gheap EXCEPT ![g] = AddRoute(@, r)]
        /\ ret' = [kind |-> "group", ptr |-> g, err |-> NoError]
        /\ last' = [NoCall EXCEPT !.op = "AddRoute", !.target = g,
                                  !.group = gheap[g], !.handlers = <<r>>]
        /\ ncalls' = ncalls + 1
        /\ UNCHANGED <<rheap, rvars, ovars>>

CallValidate ==
    \E r \in DOMAIN rheap :
        /\ ncalls < MaxCalls
        /\ ret' = [kind |-> "error", ptr |-> 0, err |-> Validate(rheap[r])]
        /\ last' = [NoCall EXCEPT !.op = "Validate", !.target = r,
                                  !.route = rheap[r]]
        /\ ncalls' = ncalls + 1
        /\ UNCHANGED <<rheap, gheap, rvars, ovars>>

NextBuilder ==
    \/ CallNewRoute
    \/ CallNewGroupRouter
    \/ CallHandle
    \/ CallRouteUse
    \/ CallWithDescription
    \/ CallGroupUse
    \/ CallAddRoute
    \/ CallValidate

SpecBuilder == InitBuilder /\ [][NextBuilder]_vars

----------------------------------------------------------------------------
(* Claims about the descriptors (checked under SpecBuilder) *)

\* C1 as stated: Validate gives the empty-path error whenever the path is
\* empty, the no-handler error whenever there are no handlers, and nil in
\* every other case.
C1_ValidateAsStated ==
    last.op = "Validate" =>
        /\ (last.route.Path = <<>> => ret.err = ErrEmptyPath)
        /\ (Len(last.route.Handlers) = 0 => ret.err = ErrNoHandler)
        /\ (last.route.Path # <<>> /\ Len(last.route.Handlers) # 0
                => ret.err = NoError)

\* C1 (amended): Validate gives the empty-path error whenever the path is
\* empty, the no-handler error when the path is not empty and there are no
\* handlers, and nil in every other case; it returns nothing but one of these.
C1_Validate ==
    last.op = "Validate" =>
        /\ ret.kind = "error"
        /\ (last.route.Path = <<>> => ret.err = ErrEmptyPath)
        /\ (last.route.Path # <<>> /\ Len(last.route.Handlers) = 0
                => ret.err = ErrNoHandler)
        /\ (last.route.Path # <<>> /\ Len(last.route.Handlers) # 0
                => ret.err = NoError)

\* a route with neither path nor handlers has been validated
C1_Witness ==
    /\ last.op = "Validate"
    /\ last.route.Path = <<>>
    /\ Len(last.route.Handlers) = 0
    /\ ret.err = ErrEmptyPath

\* what every builder call does: it returns its receiver, keeps what the
\* receiver's sequences held (in place and in order) and leaves the path and
\* method alone
BuilderKeeps ==
    /\ last.op \in {"Handle", "RouteUse", "WithDescription"} =>
        /\ ret.kind = "route" /\ ret.ptr = last.target
        /\ rheap[last.target].Path = last.route.Path
        /\ rheap[last.target].Method = last.route.Method
        /\ IsPrefixOf(last.route.Handlers, rheap[last.target].Handlers)
        /\ IsPrefixOf(last.route.Middlewares, rheap[last.target].Middlewares)
    /\ last.op \in {"GroupUse", "AddRoute"} =>
        /\ ret.kind = "group" /\ ret.ptr = last.target
        /\ gheap[last.target].Path = last.group.Path
        /\ IsPrefixOf(last.group.Routes, gheap[last.target].Routes)
        /\ IsPrefixOf(last.group.Middlewares, gheap[last.target].Middlewares)

\* C4 as stated: every builder call returns its receiver and only adds to
\* it; nothing an earlier call set or added is replaced or removed -- a
\* description once set included.
C4_BuildersAsStated ==
    /\ BuilderKeeps
    /\ last.op \in {"Handle", "RouteUse", "WithDescription"} =>
        (last.route.Description # "" =>
            rheap[last.target].Description = last.route.Description)

\* C4 (amended): every builder call returns its receiver; Handle, Use and
\* AddRoute append their arguments and keep everything the descriptor held;
\* WithDescription replaces the description by its argument and changes
\* nothing else.
C4_Builders ==
    /\ BuilderKeeps
    /\ last.op = "Handle" =>
        /\ rheap[last.target].Handlers = last.route.Handlers \o last.handlers
        /\ rheap[last.target].Middlewares = last.route.Middlewares
        /\ rheap[last.target].Description = last.route.Description
    /\ last.op = "RouteUse" =>
        /\ rheap[last.target].Middlewares = last.route.Middlewares \o last.handlers
        /\ rheap[last.target].Handlers = last.route.Handlers
        /\ rheap[last.target].Description = last.route.Description
    /\ last.op = "WithDescription" =>
        /\ rheap[last.target].Description = last.text
        /\ rheap[last.target].Handlers = last.route.Handlers
        /\ rheap[last.target].Middlewares = last.route.Middlewares
    /\ last.op = "GroupUse" =>
        /\ gheap[last.target].Middlewares = last.group.Middlewares \o last.handlers
        /\ gheap[last.target].Routes = last.group.Routes
    /\ last.op = "AddRoute" =>
        /\ gheap[last.target].Routes = last.group.Routes \o last.handlers
        /\ gheap[last.target].Middlewares = last.group.Middlewares

\* a second WithDescription has replaced the description of a route that
\* already has handlers
C4_Witness ==
    /\ last.op = "WithDescription"
    /\ last.route.Description \notin {"", last.text}
    /\ Len(last.route.Handlers) > 0
    /\ rheap[last.target].Description = last.text

----------------------------------------------------------------------------
(* The gin engine, as far as the registrar drives it.  A binding records   *)
(* the call made on the engine or on a RouterGroup: the method bound, the  *)
(* path and handlers passed, and the chain gin stores for it (the          *)
(* handlers of the engine / group it was made on, then the handlers        *)
(* passed).  group = 0 is the engine itself.                               *)

NewServerEngine ==
    [Handlers |-> <<"Recovery", "Cors", "RequestLogger">>,
     groups |-> <<>>, bindings |-> <<>>]

\* engine.Group, were the middlewares installed on the engine itself
\* (engine.Use) before the group is made
EngineGroup_UseOnEngine(e, path, middlewares) ==
    [e EXCEPT !.Handlers = @ \o middlewares,
              !.groups = Append(@, [Path |-> path,
                                    Handlers |-> e.Handlers \o middlewares])]

\* engine.Group(path, middlewares...): a new RouterGroup, appended
EngineGroup(e, path, middlewares) ==
    [e EXCEPT !.groups = Append(@, [Path |-> path,
                                    Handlers |-> e.Handlers \o middlewares])]

\* engine.GET / group.GET / ... / Any (path, handlers...)
EngineHandle(e, g, verb, path, handlers) ==
    LET base == IF g = 0 THEN e.Handlers ELSE e.groups[g].Handlers
    IN  [e EXCEPT !.bindings = Append(@, [group |-> g, verb |-> verb,
                                          path |-> path, handlers |-> handlers,
                                          chain |-> base \o handlers])]

----------------------------------------------------------------------------
(* The registrar *)

\* the normalisation, were the prefix test missing
NormalizePath_Always(path) == <<"/">> \o path

NormalizePath(path) ==
    IF ~HasPrefix(path, <<"/">>) THEN <<"/">> \o path ELSE path

\* the switch, were its default branch to bind under all methods
BindVerb_DefaultAny(method) ==
    IF method \in {GET, POST, PUT, DELETE, HEAD, OPTIONS, PATCH} THEN method
    ELSE "Any"

\* the switch of registerRoute / registerRouteToGroup: the engine call made
BindVerb(method) ==
    CASE method = GET -> "GET"
      [] method = POST -> "POST"
      [] method = PUT -> "PUT"
      [] method = DELETE -> "DELETE"
      [] method = HEAD -> "HEAD"
      [] method = OPTIONS -> "OPTIONS"
      [] method = PATCH -> "PATCH"
      [] method = ANY -> "Any"
      [] OTHER -> "GET"

registerRoute(e, method, path, handlers) ==
    IF Len(handlers) = 0 THEN e
    ELSE EngineHandle(e, 0, BindVerb(method), NormalizePath(path), handlers)

registerRouteToGroup(e, g, method, path, handlers) ==
    IF Len(handlers) = 0 THEN e
    ELSE EngineHandle(e, g, BindVerb(method), NormalizePath(path), handlers)

\* allHandlers, were the two appends swapped
AllHandlers_HandlersFirst(route) == route.Handlers \o route.Middlewares

\* allHandlers: the route's middlewares, then its handlers
AllHandlers(route) == route.Middlewares \o route.Handlers

\* results of Register / RegisterGroup.  Panic is the panic of reflect's
\* Call; the panic of MustRegister / MustRegisterGroup carries the error.
NoResult == [kind |-> "none", format |-> "", fn |-> 0, grp |-> <<>>, msg |-> NoError]
ReturnNil == [NoResult EXCEPT !.kind = "nil"]
Panic == [NoResult EXCEPT !.kind = "panic"]

\* fmt.Errorf("invalid route from %s: %w", fnName, err)
ErrInvalidRoute(fnName, err) ==
    [kind |-> "error", format |-> "invalid route from %s: %w",
     fn |-> fnName, grp |-> <<>>, msg |-> err]

\* registerDirectRoutes: return err
ErrDirectRoute(err) ==
    [kind |-> "error", format |-> "%w", fn |-> 0, grp |-> <<>>, msg |-> err]

\* fmt.Errorf("invalid route in group %s from %s: %w", groupRouter.Path, fnName, err)
ErrInvalidGroupRoute(path, fnName, err) ==
    [kind |-> "error", format |-> "invalid route in group %s from %s: %w",
     fn |-> fnName, grp |-> path, msg |-> err]

\* fmt.Errorf("invalid route in group %s: %w", groupRouter.Path, err)
ErrDirectGroupRoute(path, err) ==
    [kind |-> "error", format |-> "invalid route in group %s: %w",
     fn |-> 0, grp |-> path, msg |-> err]

RECURSIVE FirstInvalid(_, _)
\* position of the first route of rs, from i on, that fails Validate; 0 if none
FirstInvalid(rs, i) ==
    IF i > Len(rs) THEN 0
    ELSE IF Validate(rs[i]) # NoError THEN i
    ELSE FirstInvalid(rs, i + 1)

RECURSIVE BindGroupRoutes(_, _, _, _)
\* the second loop over groupRouter.Routes: bind each route inside group g
BindGroupRoutes(e, g, rs, i) ==
    IF i > Len(rs) THEN e
    ELSE BindGroupRoutes(
             registerRouteToGroup(e, g, rs[i].Method, rs[i].Path, AllHandlers(rs[i])),
             g, rs, i + 1)

RECURSIVE BindUntilInvalid(_, _, _, _)
BindUntilInvalid(e, g, rs, i) ==
    IF i > Len(rs) THEN <<e, NoError>>
    ELSE IF Validate(rs[i]) # NoError THEN <<e, Validate(rs[i])>>
    ELSE BindUntilInvalid(
             registerRouteToGroup(e, g, rs[i].Method, rs[i].Path, AllHandlers(rs[i])),
             g, rs, i + 1)

\* the loop body, were each route validated just before it is bound
\* (one loop instead of two)
ProcessGroup_ValidateWhileBinding(e, groupRouter) ==
    LET e1 == EngineGroup(e, groupRouter.Path, groupRouter.Middlewares)
    IN  BindUntilInvalid(e1, Len(e1.groups), groupRouter.Routes, 1)

\* the body of the loop over groups, once a *GroupRouter is in hand:
\* validate every route, then create the gin group and bind every route.
\* Gives <<the engine as the body leaves it, error message or NoError>>.
ProcessGroup(e, groupRouter) ==
    LET bad == FirstInvalid(groupRouter.Routes, 1)
    IN  IF bad # 0 THEN <<e, Validate(groupRouter.Routes[bad])>>
        ELSE LET e1 == EngineGroup(e, groupRouter.Path, groupRouter.Middlewares)
             IN  <<BindGroupRoutes(e1, Len(e1.groups), groupRouter.Routes, 1), NoError>>

----------------------------------------------------------------------------
(* Handler objects.  An object has a method set (reflect enumerates it in  *)
(* a fixed order; a method is named by its position) and may implement     *)
(* Router (Routes() []*Route) or GroupedRouter (Groups() []*GroupRouter).  *)
(* A method is described by its signature and by what a call returns:      *)
(*   params  "none" | "one" (a required parameter) | "variadic"            *)
(*   outs    the result types                                              *)
(*   isNil   the call returns a nil pointer                                *)

SeqsUpTo(S, n) == UNION { [1..k -> S] : k \in 0..n }

MaxRoutes == 2         \* routes / methods of an object passed to Register
MaxGroups == 2         \* groups / methods of an object passed to RegisterGroup
MaxGroupRoutes == 2    \* routes in all the groups of an object together

Route(path, method, handlers, middlewares) ==
    [Path |-> path, Method |-> method, Handlers |-> handlers,
     Middlewares |-> middlewares, Description |-> ""]

RoutePool ==
    { Route(p, GET, h, w) : p \in Paths,
                            h \in { <<>>, <<"h1", "h2">> },
                            w \in { <<>>, <<"m1", "m2">> } }

SampleRoute == Route(<<"/", "a">>, GET, <<"h1">>, <<>>)

\* in groups: a full route at a relative path, a minimal one at an absolute
\* path, and one that fails validation
GroupRoutePool ==
    { Route(<<"a">>, POST, <<"h1", "h2">>, <<"m1", "m2">>),
      Route(<<"/", "a">>, GET, <<"h1">>, <<>>),
      Route(<<>>, GET, <<"h1">>, <<"m1">>) }

Group(path, middlewares, routes) ==
    [Path |-> path, Middlewares |-> middlewares, Routes |-> routes]

\* groups, all at the same prefix, with or without a group middleware
GroupPool ==
    { Group(<<"/", "u">>, w, rs) :
        w \in { <<>>, <<"g1">> }, rs \in SeqsUpTo(GroupRoutePool, MaxGroupRoutes) }

SampleGroup == Group(<<"/", "u">>, <<"g1">>, <<SampleRoute>>)

Method(params, outs, isNil, route, group) ==
    [params |-> params, outs |-> outs, isNil |-> isNil,
     route |-> route, group |-> group]

RouteMethod(route) == Method("none", <<"*Route">>, FALSE, route, SampleGroup)

GroupMethod(group) == Method("none", <<"*GroupRouter">>, FALSE, SampleRoute, group)

\* methods that are not a func() *Route returning a route
OddRouteMethods ==
    { Method("none", <<"*Route">>, TRUE, SampleRoute, SampleGroup),
      Method("one", <<"*Route">>, FALSE, SampleRoute, SampleGroup),
      Method("variadic", <<"*Route">>, FALSE, SampleRoute, SampleGroup),
      Method("none", <<"*Route", "error">>, FALSE, SampleRoute, SampleGroup),
      Method("none", <<"string">>, FALSE, SampleRoute, SampleGroup),
      Method("none", <<"*GroupRouter">>, FALSE, SampleRoute, SampleGroup) }

\* methods that are not a func() *GroupRouter returning a group
OddGroupMethods ==
    { Method("none", <<"*GroupRouter">>, TRUE, SampleRoute, SampleGroup),
      Method("one", <<"*GroupRouter">>, FALSE, SampleRoute, SampleGroup),
      Method("variadic", <<"*GroupRouter">>, FALSE, SampleRoute, SampleGroup),
      Method("none", <<"*GroupRouter", "error">>, FALSE, SampleRoute, SampleGroup),
      Method("none", <<"*Route">>, FALSE, SampleRoute, SampleGroup) }

Object(kind, routes, groups, methods) ==
    [kind |-> kind, routes |-> routes, groups |-> groups, methods |-> methods]

\* what an object that implements a capability may have besides it: nothing,
\* or methods of the shape the convention looks for
ExtraRouteMethods ==
    { <<>>, <<RouteMethod(SampleRoute),
              Method("one", <<"*Route">>, FALSE, SampleRoute, SampleGroup)>> }

ExtraGroupMethods ==
    { <<>>, <<GroupMethod(SampleGroup),
              Method("one", <<"*GroupRouter">>, FALSE, SampleRoute, SampleGroup)>> }

RECURSIVE TotalRoutes(_, _)
\* number of routes in the groups gs[i..]
TotalRoutes(gs, i) ==
    IF i > Len(gs) THEN 0 ELSE Len(gs[i].Routes) + TotalRoutes(gs, i + 1)

NumOdd(ms) == Cardinality({ i \in DOMAIN ms : ms[i] \in OddGroupMethods })

\* objects passed to Register: implementing Router, or plain
IsRouterObject(o) ==
    \E k \in 0..MaxRoutes : \E rs \in [1..k -> RoutePool] :
        \E ms \in ExtraRouteMethods :
            o = Object("Router", rs, <<>>, ms)

IsPlainRouteObject(o) ==
    \E k \in 0..MaxRoutes :
        \E ms \in [1..k -> { RouteMethod(r) : r \in RoutePool } \cup OddRouteMethods] :
            o = Object("plain", <<>>, <<>>, ms)

\* objects passed to RegisterGroup: implementing GroupedRouter, or plain
\* (then with at most one odd method)
IsGroupedRouterObject(o) ==
    \E k \in 0..MaxGroups : \E gs \in [1..k -> GroupPool] :
        \E ms \in ExtraGroupMethods :
            /\ TotalRoutes(gs, 1) <= MaxGroupRoutes
            /\ o = Object("GroupedRouter", <<>>, gs, ms)

IsPlainGroupObject(o) ==
    \E k \in 0..MaxGroups :
        \E ms \in [1..k -> { GroupMethod(g) : g \in GroupPool } \cup OddGroupMethods] :
            /\ NumOdd(ms) <= 1
            /\ TotalRoutes([i \in 1..k |-> ms[i].group], 1) <= MaxGroupRoutes + NumOdd(ms)
            /\ o = Object("plain", <<>>, <<>>, ms)

----------------------------------------------------------------------------
(* Spec: one call of Register or RegisterGroup on a fresh engine, one loop *)
(* iteration per step.                                                     *)

BuilderIdle ==
    /\ rheap = <<>>
    /\ gheap = <<>>
    /\ last = NoCall
    /\ ret = NoRet
    /\ ncalls = 0

Init ==
    /\ BuilderIdle
    /\ OthersIdle
    /\ \/ op = "Register" /\ (IsRouterObject(obj) \/ IsPlainRouteObject(obj))
       \/ op = "RegisterGroup" /\ (IsGroupedRouterObject(obj) \/ IsPlainGroupObject(obj))
    /\ must \in BOOLEAN
    /\ pc = "start"
    /\ idx = 0
    /\ engine = NewServerEngine
    /\ result = NoResult

\* the type assertions router.(Router) and router.(GroupedRouter)
ImplementsRouter_Never(o) == FALSE

ImplementsRouter(o) == o.kind = "Router"

ImplementsGroupedRouter(o) == o.kind = "GroupedRouter"

\* Register, lines 131-137: the Router capability takes precedence
RegisterStart ==
    /\ op = "Register" /\ pc = "start"
    /\ pc' = IF ImplementsRouter(obj) THEN "direct" ELSE "methods"
    /\ idx' = 1
    /\ UNCHANGED <<obj, op, must, engine, result, bvars, ovars>>

\* Register, lines 139-166: one iteration of the loop over the methods
RegisterMethod ==
    /\ op = "Register" /\ pc = "methods" /\ idx <= Len(obj.methods)
    /\ LET method == obj.methods[idx]
       IN  IF Len(method.outs) # 1 \/ method.outs[1] # "*Route"
           THEN /\ idx' = idx + 1
                /\ UNCHANGED <<pc, engine, result>>
           ELSE IF method.params = "one"        \* Call(nil): too few arguments
           THEN /\ result' = Panic
                /\ pc' = "done"
                /\ UNCHANGED <<idx, engine>>
           ELSE IF method.isNil
           THEN /\ idx' = idx + 1
                /\ UNCHANGED <<pc, engine, result>>
           ELSE IF Validate(method.route) # NoError
           THEN /\ result' = ErrInvalidRoute(idx, Validate(method.route))
                /\ pc' = "done"
                /\ UNCHANGED <<idx, engine>>
           ELSE /\ engine' = registerRoute(engine, method.route.Method,
                                 method.route.Path, AllHandlers(method.route))
                /\ idx' = idx + 1
                /\ UNCHANGED <<pc, result>>
    /\ UNCHANGED <<obj, op, must, bvars, ovars>>

RegisterReturn ==
    /\ op = "Register" /\ pc = "methods" /\ idx > Len(obj.methods)
    /\ result' = ReturnNil
    /\ pc' = "done"
    /\ UNCHANGED <<obj, op, must, idx, engine, bvars, ovars>>

\* the iteration of registerDirectRoutes, were an invalid route passed over
\* (continue) instead of ending the call
DirectRoute_SkipInvalid ==
    /\ op = "Register" /\ pc = "direct" /\ idx <= Len(obj.routes)
    /\ LET route == obj.routes[idx]
       IN  engine' = IF Validate(route) # NoError THEN engine
                     ELSE registerRoute(engine, route.Method, route.Path,
                                        AllHandlers(route))
    /\ idx' = idx + 1
    /\ UNCHANGED <<pc, result, obj, op, must, bvars, ovars>>

\* the iteration of registerDirectRoutes, were the chain built stored back
\* into the route (route.Handlers = allHandlers)
DirectRoute_StoreChain ==
    /\ op = "Register" /\ pc = "direct" /\ idx <= Len(obj.routes)
    /\ LET route == obj.routes[idx]
       IN  IF Validate(route) # NoError
           THEN /\ result' = ErrDirectRoute(Validate(route))
                /\ pc' = "done"
                /\ UNCHANGED <<idx, engine, obj>>
           ELSE /\ engine' = registerRoute(engine, route.Method, route.Path,
                                           AllHandlers(route))
                /\ obj' = [obj EXCEPT !.routes[idx].Handlers = AllHandlers(route)]
                /\ idx' = idx + 1
                /\ UNCHANGED <<pc, result>>
    /\ UNCHANGED <<op, must, bvars, ovars>>

\* registerDirectRoutes, lines 173-183: one iteration over r.Routes()
DirectRoute ==
    /\ op = "Register" /\ pc = "direct" /\ idx <= Len(obj.routes)
    /\ LET route == obj.routes[idx]
       IN  IF Validate(route) # NoError
           THEN /\ result' = ErrDirectRoute(Validate(route))
                /\ pc' = "done"
                /\ UNCHANGED <<idx, engine>>
           ELSE /\ engine' = registerRoute(engine, route.Method, route.Path,
                                           AllHandlers(route))
                /\ idx' = idx + 1
                /\ UNCHANGED <<pc, result>>
    /\ UNCHANGED <<obj, op, must, bvars, ovars>>

DirectRoutesReturn ==
    /\ op = "Register" /\ pc = "direct" /\ idx > Len(obj.routes)
    /\ result' = ReturnNil
    /\ pc' = "done"
    /\ UNCHANGED <<obj, op, must, idx, engine, bvars, ovars>>

\* RegisterGroup, lines 190-196
RegisterGroupStart ==
    /\ op = "RegisterGroup" /\ pc = "start"
    /\ pc' = IF ImplementsGroupedRouter(obj) THEN "direct" ELSE "methods"
    /\ idx' = 1
    /\ UNCHANGED <<obj, op, must, engine, result, bvars, ovars>>

\* RegisterGroup, lines 198-232: one iteration of the loop over the methods
RegisterGroupMethod ==
    /\ op = "RegisterGroup" /\ pc = "methods" /\ idx <= Len(obj.methods)
    /\ LET method == obj.methods[idx]
           done == ProcessGroup(engine, method.group)
       IN  IF Len(method.outs) # 1 \/ method.outs[1] # "*GroupRouter"
           THEN /\ idx' = idx + 1
                /\ UNCHANGED <<pc, engine, result>>
           ELSE IF method.params = "one"        \* Call(nil): too few arguments
           THEN /\ result' = Panic
                /\ pc' = "done"
                /\ UNCHANGED <<idx, engine>>
           ELSE IF method.isNil
           THEN /\ idx' = idx + 1
                /\ UNCHANGED <<pc, engine, result>>
           ELSE IF done[2] # NoError
           THEN /\ result' = ErrInvalidGroupRoute(method.group.Path, idx, done[2])
                /\ pc' = "done"
                /\ engine' = done[1]
                /\ UNCHANGED idx
           ELSE /\ engine' = done[1]
                /\ idx' = idx + 1
                /\ UNCHANGED <<pc, result>>
    /\ UNCHANGED <<obj, op, must, bvars, ovars>>

RegisterGroupReturn ==
    /\ op = "RegisterGroup" /\ pc = "methods" /\ idx > Len(obj.methods)
    /\ result' = ReturnNil
    /\ pc' = "done"
    /\ UNCHANGED <<obj, op, must, idx, engine, bvars, ovars>>

\* registerDirectGroups, lines 239-255: one iteration over r.Groups()
DirectGroup ==
    /\ op = "RegisterGroup" /\ pc = "direct" /\ idx <= Len(obj.groups)
    /\ LET groupRouter == obj.groups[idx]
           done == ProcessGroup(engine, groupRouter)
       IN  IF done[2] # NoError
           THEN /\ result' = ErrDirectGroupRoute(groupRouter.Path, done[2])
                /\ pc' = "done"
                /\ engine' = done[1]
                /\ UNCHANGED idx
           ELSE /\ engine' = done[1]
                /\ idx' = idx + 1
                /\ UNCHANGED <<pc, result>>
    /\ UNCHANGED <<obj, op, must, bvars, ovars>>

DirectGroupsReturn ==
    /\ op = "RegisterGroup" /\ pc = "direct" /\ idx > Len(obj.groups)
    /\ result' = ReturnNil
    /\ pc' = "done"
    /\ UNCHANGED <<obj, op, must, idx, engine, bvars, ovars>>

\* MustRegister / MustRegisterGroup, were the error dropped
MustReturn_DropError ==
    /\ must /\ pc = "done"
    /\ pc' = "returned"
    /\ result' = IF result.kind = "error" THEN ReturnNil ELSE result
    /\ UNCHANGED <<obj, op, must, idx, engine, bvars, ovars>>

\* MustRegister / MustRegisterGroup, lines 261-271, once the call of
\* Register / RegisterGroup is over: panic(err) if it returned an error,
\* return otherwise.  A panic raised inside the call just goes on.
MustReturn ==
    /\ must /\ pc = "done"
    /\ pc' = "returned"
    /\ result' = IF result.kind = "error" THEN [result EXCEPT !.kind = "panic"]
                  ELSE result
    /\ UNCHANGED <<obj, op, must, idx, engine, bvars, ovars>>

Next ==
    \/ RegisterStart
    \/ RegisterMethod
    \/ RegisterReturn
    \/ DirectRoute
    \/ DirectRoutesReturn
    \/ RegisterGroupStart
    \/ RegisterGroupMethod
    \/ RegisterGroupReturn
    \/ DirectGroup
    \/ DirectGroupsReturn
    \/ MustReturn

Spec == Init /\ [][Next]_vars

----------------------------------------------------------------------------
(* Claims about the registrar (checked under Spec).                        *)
(*                                                                         *)
(* The claims are stated against the handler object: what the loops have   *)
(* obtained from it so far, and what that should have put on the engine.   *)

Bindings == engine.bindings

\* loop iterations completed
Completed == IF idx = 0 THEN 0 ELSE idx - 1

\* the route is one Validate rejects
Invalid(r) == r.Path = <<>> \/ r.Handlers = <<>>

StartsWithSlash(p) == Len(p) > 0 /\ Head(p) = "/"

\* the signature the convention is documented to look for
ProperRouteMethod(m) == m.params = "none" /\ m.outs = <<"*Route">>

ReturnsProperRoute(m) == ProperRouteMethod(m) /\ ~m.isNil

\* the methods a descriptor is in fact obtained from
YieldsRoute(m) == m.outs = <<"*Route">> /\ m.params # "one" /\ ~m.isNil

YieldsGroup(m) == m.outs = <<"*GroupRouter">> /\ m.params # "one" /\ ~m.isNil

\* the routes / groups obtained in the first n iterations
ObtainedRoutes(n) ==
    IF obj.kind = "Router" THEN SubSeq(obj.routes, 1, n)
    ELSE LET ms == SelectSeq(SubSeq(obj.methods, 1, n), YieldsRoute)
         IN  [k \in 1..Len(ms) |-> ms[k].route]

ObtainedGroups(n) ==
    IF obj.kind = "GroupedRouter" THEN SubSeq(obj.groups, 1, n)
    ELSE LET ms == SelectSeq(SubSeq(obj.methods, 1, n), YieldsGroup)
         IN  [k \in 1..Len(ms) |-> ms[k].group]

RECURSIVE Flatten(_, _)
\* the routes of the groups gs[j..], each with the position of its group
Flatten(gs, j) ==
    IF j > Len(gs) THEN <<>>
    ELSE [i \in 1..Len(gs[j].Routes) |-> [route |-> gs[j].Routes[i], g |-> j]]
         \o Flatten(gs, j + 1)

\* the routes obtained so far, in the order obtained; g = 0 outside groups
Sources ==
    IF op = "Register"
    THEN LET rs == ObtainedRoutes(Completed)
         IN  [k \in 1..Len(rs) |-> [route |-> rs[k], g |-> 0]]
    ELSE Flatten(ObtainedGroups(Completed), 1)

\* the item the loop is at
AtItem ==
    /\ idx >= 1
    /\ idx <= (IF obj.kind \in {"Router"} THEN Len(obj.routes)
               ELSE IF obj.kind = "GroupedRouter" THEN Len(obj.groups)
               ELSE Len(obj.methods))

NumItems ==
    IF obj.kind = "Router" THEN Len(obj.routes)
    ELSE IF obj.kind = "GroupedRouter" THEN Len(obj.groups)
    ELSE Len(obj.methods)

C3_ErrorNamesSourceAsStated ==
    (op = "Register" /\ result.kind = "error") =>
        /\ result.fn # 0
        /\ result.msg \in {ErrEmptyPath, ErrNoHandler}

\* C5: for an object that implements the capability, what is on the engine
\* is exactly what the descriptors of Routes() / Groups() give, one binding
\* per descriptor in order; no other method is called (none is bound, and
\* the one that cannot be called without arguments does not panic).
C5_CapabilityOnly ==
    /\ (op = "Register" /\ obj.kind = "Router") =>
        /\ result # Panic
        /\ Len(Bindings) <= Len(obj.routes)
        /\ \A k \in DOMAIN Bindings :
            /\ Bindings[k].group = 0
            /\ Bindings[k].verb = obj.routes[k].Method
            /\ Bindings[k].handlers =
                   obj.routes[k].Middlewares \o obj.routes[k].Handlers
        /\ (pc = "done" /\ result.kind = "nil") => Len(Bindings) = Len(obj.routes)
    /\ (op = "RegisterGroup" /\ obj.kind = "GroupedRouter") =>
        /\ result # Panic
        /\ Len(engine.groups) <= Len(obj.groups)
        /\ \A j \in DOMAIN engine.groups :
            /\ engine.groups[j].Path = obj.groups[j].Path
            /\ Cardinality({ k \in DOMAIN Bindings : Bindings[k].group = j })
                   = Len(obj.groups[j].Routes)
        /\ \A k \in DOMAIN Bindings : Bindings[k].group \in DOMAIN engine.groups
        /\ (pc = "done" /\ result.kind = "nil") =>
               Len(engine.groups) = Len(obj.groups)

\* Register has returned nil for a Router object that also has methods of
\* the convention's shape, and has bound its two routes
C5_Witness ==
    /\ op = "Register" /\ obj.kind = "Router" /\ pc = "done"
    /\ obj.methods # <<>>
    /\ result.kind = "nil"
    /\ Len(obj.routes) = 2 /\ Len(Bindings) = 2

\* C6: RegisterGroup creates a gin group only for a descriptor all of whose
\* routes are valid, and then binds every route of it; when a route of a
\* group fails validation the call ends with an error and nothing of that
\* group is on the engine, the valid routes before the invalid one included.
C6_GroupAllOrNothing ==
    op = "RegisterGroup" =>
        LET gs == ObtainedGroups(Completed)
        IN  /\ Len(engine.groups) = Len(gs)
            /\ \A j \in DOMAIN gs :
                /\ \A i \in DOMAIN gs[j].Routes : ~Invalid(gs[j].Routes[i])
                /\ Cardinality({ k \in DOMAIN Bindings : Bindings[k].group = j })
                       = Len(gs[j].Routes)
            /\ \A k \in DOMAIN Bindings : Bindings[k].group \in DOMAIN gs
            /\ result.kind = "error" =>
                /\ pc = "done" /\ AtItem
                /\ LET failing == ObtainedGroups(idx)
                   IN  /\ Len(failing) = Len(gs) + 1
                       /\ \E i \in DOMAIN failing[Len(failing)].Routes :
                              Invalid(failing[Len(failing)].Routes[i])
            /\ (pc = "done" /\ result.kind = "nil") => Completed = NumItems

\* RegisterGroup has failed on a group whose first route is valid and whose
\* second is not, after binding an earlier group
C6_Witness ==
    /\ op = "RegisterGroup" /\ pc = "done" /\ result.kind = "error"
    /\ AtItem
    /\ LET failing == ObtainedGroups(idx)
       IN  /\ Len(failing) = 2
           /\ Len(failing[2].Routes) = 2
           /\ ~Invalid(failing[2].Routes[1])
           /\ Invalid(failing[2].Routes[2])
    /\ Len(engine.groups) = 1
    /\ Len(Bindings) = 1

\* C7: Register takes the routes in enumeration order; the bindings are
\* those of the routes before the position it is at, in that order, all of
\* them valid; it returns an error exactly at the first invalid route, with
\* the earlier routes bound and neither that route nor a later one bound;
\* it returns nil only after the last one.
C7_StopsAtFirstInvalid ==
    op = "Register" =>
        LET rs == ObtainedRoutes(Completed)
        IN  /\ \A k \in DOMAIN rs : ~Invalid(rs[k])
            /\ Len(Bindings) = Len(rs)
            /\ \A k \in DOMAIN Bindings :
                /\ k <= Len(rs)
                /\ Bindings[k].verb = rs[k].Method
                /\ Bindings[k].handlers = rs[k].Middlewares \o rs[k].Handlers
            /\ result.kind = "error" =>
                /\ pc = "done" /\ AtItem
                /\ LET upto == ObtainedRoutes(idx)
                   IN  Len(upto) = Len(rs) + 1 /\ Invalid(upto[Len(upto)])
            /\ (pc = "done" /\ result.kind = "nil") => Completed = NumItems

\* Register has failed on the second of three routes returned by Routes():
\* the first is bound, the valid third is not
C7_Witness ==
    /\ op = "Register" /\ pc = "done" /\ result.kind = "error"
    /\ obj.kind = "Router" /\ idx = 2
    /\ Len(obj.routes) >= 2
    /\ ~Invalid(obj.routes[1]) /\ Invalid(obj.routes[2])
    /\ Len(Bindings) = 1

\* C8: on every path the handlers bound for a route are its middlewares in
\* order followed by its handlers in order.
C8_ChainOrder ==
    /\ Len(Bindings) = Len(Sources)
    /\ \A k \in DOMAIN Bindings :
        k <= Len(Sources) =>
            Bindings[k].handlers =
                Sources[k].route.Middlewares \o Sources[k].route.Handlers

\* a route with two middlewares and two handlers, obtained from a method
\* returning a group, is bound
C8_Witness ==
    /\ op = "RegisterGroup" /\ obj.kind = "plain" /\ pc = "done"
    /\ \E k \in DOMAIN Bindings :
        /\ Sources[k].route.Middlewares = <<"m1", "m2">>
        /\ Sources[k].route.Handlers = <<"h1", "h2">>
        /\ Bindings[k].handlers = <<"m1", "m2", "h1", "h2">>

\* C9: a route of a group is bound on the gin group made for that group's
\* prefix, at its normalised path, and the chain gin runs for it is the
\* engine's middlewares, the group's, the route's, then the route's
\* handlers -- and so nothing of another group.
C9_GroupChains ==
    op = "RegisterGroup" =>
        LET gs == ObtainedGroups(Completed)
        IN  /\ Len(Bindings) = Len(Sources)
            /\ Len(engine.groups) = Len(gs)
            /\ \A k \in DOMAIN Bindings :
                k <= Len(Sources) =>
                    LET b == Bindings[k]
                        r == Sources[k].route
                        g == Sources[k].g
                    IN  /\ b.group = g
                        /\ engine.groups[g].Path = gs[g].Path
                        /\ b.path = (IF StartsWithSlash(r.Path) THEN r.Path
                                     ELSE <<"/">> \o r.Path)
                        /\ b.chain = <<"Recovery", "Cors", "RequestLogger">>
                                     \o gs[g].Middlewares
                                     \o r.Middlewares \o r.Handlers

\* two groups at the same prefix, the first with a middleware and the
\* second without, each with a bound route
C9_Witness ==
    /\ op = "RegisterGroup" /\ pc = "done"
    /\ Len(engine.groups) = 2
    /\ engine.groups[1].Path = engine.groups[2].Path
    /\ LET gs == ObtainedGroups(Completed)
       IN  Len(gs) = 2 /\ gs[1].Middlewares = <<"g1">> /\ gs[2].Middlewares = <<>>
    /\ \E k \in DOMAIN Bindings : Bindings[k].group = 1
    /\ \E k \in DOMAIN Bindings :
        /\ Bindings[k].group = 2
        /\ Bindings[k].chain = <<"Recovery", "Cors", "RequestLogger", "h1">>

\* C10: the path handed to gin for a route starts with "/": it is the
\* route's path with one "/" put in front when the path does not start
\* with "/", and the route's path itself when it does; on the engine and
\* inside a group.
C10_AbsolutePaths ==
    /\ Len(Bindings) = Len(Sources)
    /\ \A k \in DOMAIN Bindings :
        k <= Len(Sources) =>
            LET p == Sources[k].route.Path
            IN  /\ StartsWithSlash(Bindings[k].path)
                /\ ~StartsWithSlash(p) => Bindings[k].path = <<"/">> \o p
                /\ StartsWithSlash(p) => Bindings[k].path = p

\* Register has bound a route declared at "a" and one declared at "/a"
C10_Witness ==
    /\ op = "Register" /\ pc = "done"
    /\ \E k \in DOMAIN Bindings :
        Sources[k].route.Path = <<"a">> /\ Bindings[k].path = <<"/", "a">>
    /\ \E k \in DOMAIN Bindings :
        Sources[k].route.Path = <<"/", "a">> /\ Bindings[k].path = <<"/", "a">>

----------------------------------------------------------------------------
(* SpecMethods: the registrar of Spec, run on objects whose routes carry    *)
(* every Method value: the eight constants, the empty string and a value    *)
(* that is none of the constants.                                           *)

MaxMethodRoutes == 1   \* routes of an object in SpecMethods

AllMethods == KnownMethods \cup { "", "TRACE" }

MethodRoute(method) == Route(<<"a">>, method, <<"h1">>, <<>>)

InitMethods ==
    /\ BuilderIdle
    /\ OthersIdle
    /\ \E k \in 0..MaxMethodRoutes : \E ms \in [1..k -> AllMethods] :
        LET rs == [i \in 1..k |-> MethodRoute(ms[i])]
            g == Group(<<"/", "u">>, <<>>, rs)
        IN  \/ /\ op = "Register"
               /\ obj = Object("Router", rs, <<>>, <<>>)
            \/ /\ op = "Register"
               /\ obj = Object("plain", <<>>, <<>>, [i \in 1..k |-> RouteMethod(rs[i])])
            \/ /\ op = "RegisterGroup"
               /\ obj = Object("GroupedRouter", <<>>, <<g>>, <<>>)
            \/ /\ op = "RegisterGroup"
               /\ obj = Object("plain", <<>>, <<>>, <<GroupMethod(g)>>)
    /\ must \in BOOLEAN
    /\ pc = "start"
    /\ idx = 0
    /\ engine = NewServerEngine
    /\ result = NoResult

SpecMethods == InitMethods /\ [][Next]_vars

\* C11: a route is bound by the engine call of its Method when the Method
\* is one of GET, POST, PUT, DELETE, HEAD, OPTIONS, PATCH, by Any when it is
\* ANY, and by GET for every other value, the empty string included; no
\* Method value makes the call fail; on the engine and inside a group.
C11_MethodBinding ==
    /\ result.kind \in {"none", "nil"}
    /\ Len(Bindings) = Len(Sources)
    /\ \A k \in DOMAIN Bindings :
        k <= Len(Sources) =>
            LET m == Sources[k].route.Method
            IN  /\ Bindings[k].group = Sources[k].g
                /\ m \in {GET, POST, PUT, DELETE, HEAD, OPTIONS, PATCH}
                       => Bindings[k].verb = m
                /\ m = ANY => Bindings[k].verb = "Any"
                /\ m \notin KnownMethods => Bindings[k].verb = "GET"
    /\ pc \in {"done", "returned"} => Completed = NumItems

\* a route whose Method is the empty string has been bound as GET inside a
\* group, and the call returned nil
C11_Witness ==
    /\ op = "RegisterGroup" /\ pc = "done" /\ result.kind = "nil"
    /\ \E k \in DOMAIN Bindings :
        /\ Sources[k].route.Method = ""
        /\ Bindings[k].group = 1
        /\ Bindings[k].verb = "GET"

----------------------------------------------------------------------------
(* More claims about the registrar (checked under Spec) *)

C17_DescriptorsUnchanged ==
    [][obj' = obj]_vars

\* Register has bound a route with middlewares and handlers, and then
\* failed on the next one
C17_Witness ==
    /\ op = "Register" /\ obj.kind = "Router"
    /\ pc = "done" /\ result.kind = "error"
    /\ Len(Bindings) = 1
    /\ obj.routes[1].Middlewares = <<"m1", "m2">>
    /\ obj.routes[1].Handlers = <<"h1", "h2">>

----------------------------------------------------------------------------
(* The handlers of the server and their route groups *)

ApiPath == <<"/", "api">>
ApiUserPath == <<"/", "api", "/", "user">>
ApiSubPath == <<"/", "api", "/", "sub">>

\* UserHandler.UserGroup
UserGroup ==
    AddRoute(AddRoute(AddRoute(
        GroupUse(NewGroupRouter(ApiUserPath), <<"JWTAuth">>),
        WithDescription(Handle(NewRoute(<<"/", "logout">>, POST), <<"Logout">>),
                        "User logout")),
        WithDescription(Handle(NewRoute(<<"/", "info">>, GET), <<"GetUserInfo">>),
                        "Get user information")),
        WithDescription(Handle(NewRoute(<<"/", "info">>, PUT), <<"UpdateUserInfo">>),
                        "Update user information"))

\* UserHandler.Groups
UserGroups ==
    << AddRoute(NewGroupRouter(ApiUserPath),
                WithDescription(Handle(NewRoute(<<"/", "login">>, POST), <<"Login">>),
                                "User login")),
       UserGroup >>

\* SystemHandler.SystemGroup
SystemGroup ==
    AddRoute(NewGroupRouter(ApiPath),
             WithDescription(Handle(NewRoute(<<"/", "health">>, GET), <<"HealthCheck">>),
                             "Health check endpoint"))

\* SystemHandler.Groups
SystemGroups == << SystemGroup >>

\* SubHandler.SubGroup
SubGroup ==
    AddRoute(AddRoute(AddRoute(AddRoute(AddRoute(AddRoute(
        GroupUse(NewGroupRouter(ApiSubPath), <<"JWTAuth">>),
        WithDescription(Handle(NewRoute(<<"/", "add">>, POST), <<"CreateSub">>),
                        "Create subscription")),
        WithDescription(Handle(NewRoute(<<"/", "list">>, GET), <<"GetAllSubs">>),
                        "Get all subscriptions")),
        WithDescription(Handle(NewRoute(<<"/", ":id">>, GET), <<"GetSub">>),
                        "Get subscription details")),
        WithDescription(Handle(NewRoute(<<"/", ":id", "/", "content">>, GET),
                               <<"FetchSubContent">>),
                        "Fetch subscription content")),
        WithDescription(Handle(NewRoute(<<"/", ":id">>, PUT), <<"UpdateSub">>),
                        "Update subscription")),
        WithDescription(Handle(NewRoute(<<"/", ":id">>, DELETE), <<"DeleteSub">>),
                        "Delete subscription"))

\* SubHandler.Groups
SubGroups == << SubGroup >>

\* a handler method that is no route or group factory (func(*gin.Context))
PlainMethod == Method("one", <<>>, FALSE, SampleRoute, SampleGroup)

\* the handler objects: all three implement GroupedRouter; their method
\* sets, in reflect's (lexical) order
UserHandler ==
    Object("GroupedRouter", <<>>, UserGroups,
           << PlainMethod,                                   \* GetUserInfo
              Method("none", <<"[]*GroupRouter">>, FALSE, SampleRoute, SampleGroup),
              PlainMethod, PlainMethod, PlainMethod,         \* Login, Logout, UpdateUserInfo
              GroupMethod(UserGroup) >>)

SystemHandler ==
    Object("GroupedRouter", <<>>, SystemGroups,
           << Method("none", <<"[]*GroupRouter">>, FALSE, SampleRoute, SampleGroup),
              PlainMethod, PlainMethod,                      \* HealthCheck, SetupStaticAssets
              GroupMethod(SystemGroup) >>)

SubHandler ==
    Object("GroupedRouter", <<>>, SubGroups,
           << PlainMethod, PlainMethod, PlainMethod, PlainMethod, PlainMethod,
              Method("none", <<"[]*GroupRouter">>, FALSE, SampleRoute, SampleGroup),
              GroupMethod(SubGroup), PlainMethod >>)

----------------------------------------------------------------------------
(* RegisterGroup and MustRegisterGroup as whole calls: the loops that the   *)
(* actions of Spec take one iteration at a time, run to their end.  Each    *)
(* gives <<the engine as the call leaves it, the result>>.                  *)

RECURSIVE registerDirectGroups(_, _, _)
registerDirectGroups(e, groups, i) ==
    IF i > Len(groups) THEN <<e, ReturnNil>>
    ELSE LET done == ProcessGroup(e, groups[i])
         IN  IF done[2] # NoError
             THEN <<done[1], ErrDirectGroupRoute(groups[i].Path, done[2])>>
             ELSE registerDirectGroups(done[1], groups, i + 1)

RECURSIVE RegisterGroupMethods(_, _, _)
RegisterGroupMethods(e, methods, i) ==
    IF i > Len(methods) THEN <<e, ReturnNil>>
    ELSE LET method == methods[i]
             done == ProcessGroup(e, method.group)
         IN  IF Len(method.outs) # 1 \/ method.outs[1] # "*GroupRouter"
             THEN RegisterGroupMethods(e, methods, i + 1)
             ELSE IF method.params = "one" THEN <<e, Panic>>
             ELSE IF method.isNil THEN RegisterGroupMethods(e, methods, i + 1)
             ELSE IF done[2] # NoError
             THEN <<done[1], ErrInvalidGroupRoute(method.group.Path, i, done[2])>>
             ELSE RegisterGroupMethods(done[1], methods, i + 1)

\* RegisterGroup, were the capability not looked for
RegisterGroup_ByConvention(e, o) == RegisterGroupMethods(e, o.methods, 1)

RegisterGroup(e, o) ==
    IF ImplementsGroupedRouter(o) THEN registerDirectGroups(e, o.groups, 1)
    ELSE RegisterGroupMethods(e, o.methods, 1)

MustRegisterGroup(e, o) ==
    LET done == RegisterGroup(e, o)
    IN  IF done[2].kind = "error" THEN <<done[1], [done[2] EXCEPT !.kind = "panic"]>>
        ELSE done

----------------------------------------------------------------------------
(* SpecServer: one run of Server.Start on the server NewServer made, and    *)
(* the requests the HTTP server then serves, one request per step.          *)

MaxRequests == 3       \* requests served in a behaviour
MaxTime == 1           \* hours the clock advances

DefaultJWTExpiryHours == 24

\* bcrypt: the stored hash is not the password
Hash(password) == <<"bcrypt", password>>

User(id, username, password) ==
    [id |-> id, username |-> username, password |-> Hash(password)]

NoUser == [id |-> 0, username |-> "", password |-> <<>>]

AdminUser == User(1, "admin", "admin")

\* the users table of a database file that has been in use
ExistingUsers == { AdminUser, User(2, "bob", "bobpass") }

\* Start's errors
ErrStart(format) == [NoResult EXCEPT !.kind = "error", !.format = format, !.msg = "err"]

InitServer ==
    /\ BuilderIdle
    /\ obj = [kind |-> "none"]
    /\ op = "Start"
    /\ must = FALSE
    /\ pc = "start"
    /\ idx = 0
    /\ engine = NewServerEngine
    /\ result = NoResult
    /\ db \in { DbClosed, [DbClosed EXCEPT !.users = ExistingUsers] }
    /\ cfg \in [ExpiresIn : {0, 1}, Mode : {"release"}]
    /\ srv = NotStarted
    /\ now = 0
    /\ issued = {}
    /\ loggedOut = {}
    /\ req = NoRequest
    /\ resp = NoResponse
    /\ nreq = 0
    /\ ExtrasIdle

\* setupDatabase, when it succeeds: the connection is open, the schema is
\* there and the admin account exists (it is created when no row has id 1)
InitDatabase(d) ==
    [d EXCEPT !.open = TRUE,
              !.users = IF \E u \in d.users : u.id = 1 THEN d.users
                        ELSE d.users \cup { AdminUser }]

\* Start, were the error of initDatabase only logged
StartInitDatabase_IgnoreError ==
    /\ op = "Start" /\ pc = "start"
    /\ \/ /\ srv' = [srv EXCEPT !.dbinit = "failed"]
          /\ pc' = "routes"
          /\ UNCHANGED <<db, result>>
       \/ /\ db' = InitDatabase(db)
          /\ srv' = [srv EXCEPT !.dbinit = "ok"]
          /\ pc' = "routes"
          /\ UNCHANGED result
    /\ UNCHANGED <<obj, op, must, idx, engine, bvars, xvars>>
    /\ UNCHANGED <<cfg, now, issued, loggedOut, req, resp, nreq>>

\* Start, lines 94-96: initDatabase fails (Start returns the error) or
\* succeeds
StartInitDatabase ==
    /\ op = "Start" /\ pc = "start"
    /\ \/ /\ result' = ErrStart("database initialization failed: %v")
          /\ srv' = [srv EXCEPT !.dbinit = "failed"]
          /\ pc' = "done"
          /\ UNCHANGED db
       \/ /\ db' = InitDatabase(db)
          /\ srv' = [srv EXCEPT !.dbinit = "ok"]
          /\ pc' = "routes"
          /\ UNCHANGED result
    /\ UNCHANGED <<obj, op, must, idx, engine, bvars, xvars>>
    /\ UNCHANGED <<cfg, now, issued, loggedOut, req, resp, nreq>>

SwaggerPath == <<"/", "api", "/", "swagger", "/", "*any">>

\* SystemHandler.SetupStaticAssets: GET "/" and the NoRoute handler (held
\* by the engine as the chain for requests no route matches)
SetupStaticAssets(e) ==
    EngineHandle(EngineHandle(e, 0, "GET", <<"/">>, <<"Index">>),
                 0, "NoRoute", <<>>, <<"StaticNoRoute">>)

\* setupRoutes as a whole: <<the engine, "nil" or the panic>>
setupRoutes(e) ==
    LET r1 == MustRegisterGroup(e, UserHandler)
        r2 == MustRegisterGroup(r1[1], SystemHandler)
    IN  IF r1[2].kind = "panic" THEN r1
        ELSE IF r2[2].kind = "panic" THEN r2
        ELSE <<SetupStaticAssets(EngineHandle(r2[1], 0, "GET", SwaggerPath,
                                              <<"Swagger">>)),
               ReturnNil>>

\* Start, line 98
StartSetupRoutes ==
    /\ op = "Start" /\ pc = "routes"
    /\ LET done == setupRoutes(engine)
       IN  /\ engine' = done[1]
           /\ IF done[2].kind = "panic"
              THEN pc' = "done" /\ result' = done[2]
              ELSE pc' = "listen" /\ UNCHANGED result
    /\ srv' = [srv EXCEPT !.nreg = @ + 1]
    /\ UNCHANGED <<obj, op, must, idx, db, bvars, xvars>>
    /\ UNCHANGED <<cfg, now, issued, loggedOut, req, resp, nreq>>

\* Start, lines 100-113: ListenAndServe either fails at once or serves
StartListen ==
    /\ op = "Start" /\ pc = "listen"
    /\ \/ /\ pc' = "serving"
          /\ srv' = [srv EXCEPT !.listened = TRUE]
          /\ UNCHANGED result
       \/ /\ pc' = "done"
          /\ result' = ErrStart("failed to start server: %v")
          /\ UNCHANGED srv
    /\ UNCHANGED <<obj, op, must, idx, engine, db, bvars, xvars>>
    /\ UNCHANGED <<cfg, now, issued, loggedOut, req, resp, nreq>>

\* gracefulShutdown on a signal: the server stops, ListenAndServe returns
\* ErrServerClosed and Start returns nil; the database is closed
Shutdown ==
    /\ op = "Start" /\ pc = "serving"
    /\ pc' = "done"
    /\ result' = ReturnNil
    /\ db' = [db EXCEPT !.open = FALSE]
    /\ UNCHANGED <<obj, op, must, idx, engine, bvars, xvars>>
    /\ UNCHANGED <<cfg, srv, now, issued, loggedOut, req, resp, nreq>>

\* time passes while the server serves
Tick ==
    /\ op = "Start" /\ pc = "serving"
    /\ now < MaxTime
    /\ now' = now + 1
    /\ UNCHANGED <<rvars, bvars, xvars, db, cfg, srv, issued, loggedOut, req, resp, nreq>>

----------------------------------------------------------------------------
(* Serving a request: gin finds the chain bound for the method and path,    *)
(* runs its middlewares in order and, unless one aborts, its handler.       *)

ParamPieces == { ":id" }

RECURSIVE MatchPath(_, _)
\* gin's match of a request path against a registered path
MatchPath(pattern, path) ==
    IF pattern = <<>> THEN path = <<>>
    ELSE IF Head(pattern) = "*any" THEN TRUE
    ELSE IF path = <<>> THEN FALSE
    ELSE /\ \/ Head(pattern) = Head(path)
            \/ Head(pattern) \in ParamPieces /\ Head(path) # "/"
         /\ MatchPath(Tail(pattern), Tail(path))

\* the path a binding answers to: the prefix of its group, then its path
FullPath(e, b) ==
    (IF b.group = 0 THEN <<>> ELSE e.groups[b.group].Path) \o b.path

Matching(e, verb, path) ==
    { k \in DOMAIN e.bindings :
        /\ e.bindings[k].verb \in {verb, "Any"}
        /\ MatchPath(FullPath(e, e.bindings[k]), path) }

\* the chain gin runs for a request
ChainFor(e, verb, path) ==
    LET ks == Matching(e, verb, path)
        nr == { k \in DOMAIN e.bindings : e.bindings[k].verb = "NoRoute" }
    IN  IF ks # {} THEN e.bindings[CHOOSE k \in ks : \A j \in ks : k <= j].chain
        ELSE IF nr # {} THEN e.bindings[CHOOSE k \in nr : \A j \in nr : k >= j].chain
        ELSE e.Handlers \o <<"Default404">>

Pass == [abort |-> FALSE, status |-> 0, message |-> ""]

Abort(status, message) == [abort |-> TRUE, status |-> status, message |-> message]

\* middleware.Cors
Cors(verb, origin) ==
    IF origin = "" THEN Pass
    ELSE IF cfg.Mode = "debug" \/ origin = "same"
    THEN IF verb = OPTIONS THEN Abort(204, "") ELSE Pass
    ELSE Abort(403, "Cross-origin requests not allowed")

\* a claim of a token is a JSON value: a number (its integer part and its
\* fraction in tenths), a string, or absent
Number(n) == [type |-> "number", int |-> n, frac |-> 0]

NoClaim == [type |-> "absent", int |-> 0, frac |-> 0]

\* int64(v) of a float64: the fraction is dropped
Int64(v) == v.int

\* a token: its user_id claim, its exp claim (in hours) and how it is
\* signed ("good": HMAC with the configured secret; "bad": HMAC with another
\* key; "RS256": not HMAC)
NoToken == [user |-> NoClaim, exp |-> 0, sig |-> "none"]

\* an Authorization header: the number of parts a split at " " gives, the
\* first part, and the token the second part spells
NoAuth == [scheme |-> "none", parts |-> 0, token |-> NoToken]

Bearer(token) == [scheme |-> "Bearer", parts |-> 2, token |-> token]

\* JWTAuth, were the user_id claim not looked at
JWTAuth_AnyUserID(auth, time) ==
    IF auth.scheme = "none" THEN Abort(401, "missing authentication header")
    ELSE IF auth.parts # 2 \/ auth.scheme # "Bearer"
    THEN Abort(401, "invalid authentication format")
    ELSE IF auth.token.sig # "good" \/ time > auth.token.exp
    THEN Abort(401, "invalid or expired token")
    ELSE Pass

\* middleware.JWTAuth
JWTAuth(auth, time) ==
    IF auth.scheme = "none" THEN Abort(401, "missing authentication header")
    ELSE IF auth.parts # 2 \/ auth.scheme # "Bearer"
    THEN Abort(401, "invalid authentication format")
    ELSE IF auth.token.sig # "good" \/ time > auth.token.exp
    THEN Abort(401, "invalid or expired token")
    ELSE IF auth.token.user.type # "number"
    THEN Abort(401, "invalid user ID in token")
    ELSE Pass

\* c.Set("user_id", int64(userID)): what the handlers after JWTAuth read
ContextUserID(auth) == Int64(auth.token.user)

Middleware(name, verb, origin, auth, time) ==
    CASE name = "Cors" -> Cors(verb, origin)
      [] name = "JWTAuth" -> JWTAuth(auth, time)
      [] OTHER -> Pass

RECURSIVE RunMiddlewares(_, _, _, _, _, _)
\* the handlers of the chain before its last, from i on: the first abort
RunMiddlewares(chain, i, verb, origin, auth, time) ==
    IF i >= Len(chain) THEN Pass
    ELSE LET m == Middleware(chain[i], verb, origin, auth, time)
         IN  IF m.abort THEN m
             ELSE RunMiddlewares(chain, i + 1, verb, origin, auth, time)

Protected(chain) == \E i \in DOMAIN chain : chain[i] = "JWTAuth"

\* requests
Line(verb, path, origin) == [verb |-> verb, path |-> path, origin |-> origin]

\* method, path and Origin header of the requests made: the endpoints of the
\* API, one of them also from a foreign origin, and requests nothing is
\* bound for
Requests ==
    { Line(POST, <<"/", "api", "/", "user", "/", "login">>, ""),
      Line(POST, <<"/", "api", "/", "user", "/", "login">>, "other"),
      Line(POST, <<"/", "api", "/", "user", "/", "logout">>, ""),
      Line(GET, <<"/", "api", "/", "user", "/", "info">>, ""),
      Line(PUT, <<"/", "api", "/", "user", "/", "info">>, ""),
      Line(GET, <<"/", "api", "/", "health">>, ""),
      Line(GET, <<"/", "api", "/", "sub", "/", "list">>, ""),
      Line(GET, <<"/", "api", "/", "user", "/", "logout">>, ""),
      Line(GET, <<"/">>, "") }

ForgedToken == [user |-> Number(1), exp |-> MaxTime, sig |-> "bad"]

AuthHeaders ==
    { NoAuth, [scheme |-> "Basic", parts |-> 2, token |-> NoToken], Bearer(ForgedToken) }
    \cup { Bearer(t) : t \in issued }

\* what is kept of a request: the token it presented to JWTAuth, whether
\* its chain has JWTAuth, whether a logout had been made with the token before, the
\* handler it reached ("" if none)
Request(auth, chain, handler) ==
    [token |-> IF Protected(chain) THEN auth.token ELSE NoToken,
     protected |-> Protected(chain),
     revoked |-> auth.token \in loggedOut, handler |-> handler,
     conflict |-> FALSE, before |-> NoUser]

Response(status, message) == [status |-> status, message |-> message]

\* the handler the chain ends with
HandlerOf(chain) == chain[Len(chain)]

\* no middleware of the chain aborts the request
Passes(chain, verb, origin, auth) ==
    ~RunMiddlewares(chain, 1, verb, origin, auth, now).abort

Serving == op = "Start" /\ pc = "serving" /\ nreq < MaxRequests

\* a middleware aborts the request
ServeAborted ==
    /\ Serving
    /\ \E r \in Requests :
        LET chain == ChainFor(engine, r.verb, r.path)
        IN  \E auth \in AuthHeaders :
                LET m == RunMiddlewares(chain, 1, r.verb, r.origin, auth, now)
                IN  /\ m.abort
                    /\ req' = Request(auth, chain, "")
                    /\ resp' = Response(m.status, m.message)
    /\ nreq' = nreq + 1
    /\ UNCHANGED <<rvars, bvars, xvars, db, cfg, srv, now, issued, loggedOut>>

\* HealthCheck, the swagger and index pages, and the NoRoute handler
ServeOther ==
    /\ Serving
    /\ \E r \in Requests :
        LET chain == ChainFor(engine, r.verb, r.path)
            handler == HandlerOf(chain)
        IN  /\ handler \in {"HealthCheck", "Swagger", "Index", "StaticNoRoute",
                             "Default404"}
            /\ \E auth \in AuthHeaders :
                /\ Passes(chain, r.verb, r.origin, auth)
                /\ req' = Request(auth, chain, handler)
            /\ resp' = IF handler \in {"HealthCheck", "Swagger", "Index"}
                       THEN Response(200, "")
                       ELSE IF handler = "StaticNoRoute"
                               /\ ~HasPrefix(r.path, <<"/", "api", "/">>)
                       THEN Response(200, "")
                       ELSE IF handler = "StaticNoRoute"
                       THEN Response(404, "API endpoint not found")
                       ELSE Response(404, "404 page not found")
    /\ nreq' = nreq + 1
    /\ UNCHANGED <<rvars, bvars, xvars, db, cfg, srv, now, issued, loggedOut>>

----------------------------------------------------------------------------
(* The user repository (SQL on the users table) and the user handlers *)

ErrUserNotFound == "user not found"
ErrUserExists == "user already exists"
ErrUniqueUsername == "failed to update user: UNIQUE constraint failed: users.username"

\* GetByID / GetByUsername: <<the row, the error>>
GetByID(d, id) ==
    IF \E u \in d.users : u.id = id
    THEN <<CHOOSE u \in d.users : u.id = id, NoError>>
    ELSE <<NoUser, ErrUserNotFound>>

GetByUsername(d, username) ==
    IF \E u \in d.users : u.username = username
    THEN <<CHOOSE u \in d.users : u.username = username, NoError>>
    ELSE <<NoUser, ErrUserNotFound>>

\* SQLUserRepository.Update: the row must exist; the UPDATE of the username
\* runs under the UNIQUE constraint of the column and the transaction is
\* rolled back when it fails.  <<the database, the error>>
UserUpdate(d, user) ==
    IF ~\E u \in d.users : u.id = user.id THEN <<d, ErrUserNotFound>>
    ELSE IF \E u \in d.users : u.id # user.id /\ u.username = user.username
    THEN <<d, ErrUniqueUsername>>
    ELSE <<[d EXCEPT !.users = { IF u.id = user.id
                                 THEN [u EXCEPT !.username = user.username]
                                 ELSE u : u \in d.users }], NoError>>

\* SQLUserRepository.UpdatePassword
UpdatePassword(d, userID, hashedPassword) ==
    IF ~\E u \in d.users : u.id = userID THEN <<d, ErrUserNotFound>>
    ELSE <<[d EXCEPT !.users = { IF u.id = userID
                                 THEN [u EXCEPT !.password = hashedPassword]
                                 ELSE u : u \in d.users }], NoError>>

\* UserService.ChangePassword
ChangePassword(d, userID, oldPassword, newPassword) ==
    LET got == GetByID(d, userID)
    IN  IF got[2] # NoError THEN <<d, got[2]>>
        ELSE IF got[1].password # Hash(oldPassword) THEN <<d, "invalid credentials">>
        ELSE UpdatePassword(d, userID, Hash(newPassword))

\* request bodies; ok is whether ShouldBindJSON accepts the body
LoginBodies ==
    { [ok |-> FALSE, username |-> "", password |-> ""] }
    \cup [ok : {TRUE}, username : {"admin", "bob", "nobody"},
          password : {"admin", "wrong"}]

UpdateBodies ==
    { [ok |-> FALSE, old |-> "", new |-> "", username |-> ""] }
    \cup { [ok |-> TRUE, old |-> pw[1], new |-> pw[2], username |-> name] :
             pw \in { <<"", "">>, <<"admin", "">>, <<"admin", "secret1">>,
                      <<"wrong", "secret1">> },
             name \in {"", "admin", "bob", "carol"} }

\* UserHandler.Login: <<the response, the token issued or NoToken>>
Login(d, body) ==
    LET got == GetByUsername(d, body.username)
        expiresIn == IF cfg.ExpiresIn <= 0 THEN DefaultJWTExpiryHours
                     ELSE cfg.ExpiresIn
    IN  IF ~body.ok THEN <<Response(400, "Invalid request parameters"), NoToken>>
        ELSE IF got[2] # NoError
        THEN <<Response(401, "Invalid username or password"), NoToken>>
        ELSE IF got[1].password # Hash(body.password)
        THEN <<Response(401, "Invalid username or password"), NoToken>>
        ELSE <<Response(200, "Login successful"),
               [user |-> Number(got[1].id), exp |-> now + expiresIn, sig |-> "good"]>>

\* UserHandler.UpdateUserInfo: <<the database, the response>>
UpdateUserInfo(d, userID, body) ==
    LET got == GetByID(d, userID)
        user == got[1]
        changed == IF body.old # "" /\ body.new # ""
                   THEN ChangePassword(d, user.id, body.old, body.new)
                   ELSE <<d, NoError>>
        updated == IF body.username # "" /\ body.username # user.username
                   THEN UserUpdate(changed[1], [user EXCEPT !.username = body.username])
                   ELSE <<changed[1], NoError>>
    IN  IF ~body.ok THEN <<d, Response(400, "Invalid request parameters")>>
        ELSE IF got[2] # NoError THEN <<d, Response(404, "User not found")>>
        ELSE IF changed[2] = "invalid credentials"
        THEN <<d, Response(401, "Invalid old password")>>
        ELSE IF changed[2] # NoError
        THEN <<d, Response(500, "Failed to update password")>>
        ELSE IF updated[2] = ErrUserExists
        THEN <<updated[1], Response(400, "Username already exists")>>
        ELSE IF updated[2] # NoError
        THEN <<updated[1], Response(500, "Failed to update username")>>
        ELSE <<updated[1], Response(200, "User information updated successfully")>>

ServeLogin ==
    /\ Serving
    /\ \E r \in Requests :
        LET chain == ChainFor(engine, r.verb, r.path)
        IN  /\ HandlerOf(chain) = "Login"
            /\ \E auth \in AuthHeaders, body \in LoginBodies :
                LET done == Login(db, body)
                IN  /\ Passes(chain, r.verb, r.origin, auth)
                    /\ req' = Request(auth, chain, "Login")
                    /\ resp' = done[1]
                    /\ issued' = IF done[2] = NoToken THEN issued
                                 ELSE issued \cup {done[2]}
    /\ nreq' = nreq + 1
    /\ UNCHANGED <<rvars, bvars, xvars, db, cfg, srv, now, loggedOut>>

\* UserHandler.Logout: the user id is in the context (JWTAuth put it there)
ServeLogout ==
    /\ Serving
    /\ \E r \in Requests :
        LET chain == ChainFor(engine, r.verb, r.path)
        IN  /\ HandlerOf(chain) = "Logout"
            /\ \E auth \in AuthHeaders :
                /\ Passes(chain, r.verb, r.origin, auth)
                /\ req' = Request(auth, chain, "Logout")
                /\ resp' = Response(200, "Logout successful")
                /\ loggedOut' = loggedOut \cup {auth.token}
    /\ nreq' = nreq + 1
    /\ UNCHANGED <<rvars, bvars, xvars, db, cfg, srv, now, issued>>

ServeGetUserInfo ==
    /\ Serving
    /\ \E r \in Requests :
        LET chain == ChainFor(engine, r.verb, r.path)
        IN  /\ HandlerOf(chain) = "GetUserInfo"
            /\ \E auth \in AuthHeaders :
                /\ Passes(chain, r.verb, r.origin, auth)
                /\ req' = Request(auth, chain, "GetUserInfo")
                /\ resp' = IF GetByID(db, ContextUserID(auth))[2] = NoError
                           THEN Response(200, "Success")
                           ELSE Response(404, "User not found")
    /\ nreq' = nreq + 1
    /\ UNCHANGED <<rvars, bvars, xvars, db, cfg, srv, now, issued, loggedOut>>

ServeUpdateUserInfo ==
    /\ Serving
    /\ \E r \in Requests :
        LET chain == ChainFor(engine, r.verb, r.path)
        IN  /\ HandlerOf(chain) = "UpdateUserInfo"
            /\ \E auth \in AuthHeaders, body \in UpdateBodies :
                LET done == UpdateUserInfo(db, ContextUserID(auth), body)
                    user == GetByID(db, ContextUserID(auth))[1]
                IN  /\ Passes(chain, r.verb, r.origin, auth)
                    /\ req' = [Request(auth, chain, "UpdateUserInfo")
                                  EXCEPT !.before = user,
                                         !.conflict =
                                             /\ body.ok /\ user # NoUser
                                             /\ (body.old = "" \/ body.new = "")
                                             /\ \E u \in db.users :
                                                    /\ u.id # user.id
                                                    /\ u.username = body.username]
                    /\ db' = done[1]
                    /\ resp' = done[2]
    /\ nreq' = nreq + 1
    /\ UNCHANGED <<rvars, bvars, xvars, cfg, srv, now, issued, loggedOut>>

NextServer ==
    \/ StartInitDatabase
    \/ StartSetupRoutes
    \/ StartListen
    \/ Shutdown
    \/ Tick
    \/ ServeAborted
    \/ ServeOther
    \/ ServeLogin
    \/ ServeLogout
    \/ ServeGetUserInfo
    \/ ServeUpdateUserInfo

SpecServer == InitServer /\ [][NextServer]_vars

----------------------------------------------------------------------------
(* Claims about the server *)

\* Started: initDatabase and setupRoutes have both run and returned
Started == op = "Start" /\ srv.dbinit = "ok" /\ srv.nreg > 0 /\ result.kind # "panic"

\* the binding answers to the route of the group and JWTAuth runs in its
\* chain before its handler
BoundBehindJWT(e, b, group, route) ==
    /\ b.verb = route.Method
    /\ FullPath(e, b) = group.Path \o NormalizePath(route.Path)
    /\ \E i, j \in DOMAIN b.chain :
        /\ i < j
        /\ b.chain[i] = "JWTAuth"
        /\ b.chain[j] = route.Handlers[Len(route.Handlers)]

\* C13: once Start has initialised the database and run setupRoutes, each of
\* the six endpoints that SubHandler.SubGroup declares is bound on the engine
\* with JWTAuth before its handler.
C13_SubEndpointsBoundAsStated ==
    Started =>
        \A i \in DOMAIN SubGroup.Routes :
            \E k \in DOMAIN engine.bindings :
                BoundBehindJWT(engine, engine.bindings[k], SubGroup, SubGroup.Routes[i])

\* C14: in Start the routes are registered exactly once, completely and
\* before the server listens, and only after the database was initialised;
\* when the initialisation fails Start returns its error, registers no route
\* and never listens.
C14_StartOrder ==
    op = "Start" =>
        /\ srv.nreg <= 1
        /\ srv.listened =>
            /\ srv.nreg = 1
            /\ engine = setupRoutes(NewServerEngine)[1]
        /\ (srv.nreg > 0 \/ engine # NewServerEngine) => srv.dbinit = "ok"
        /\ pc \in {"listen", "serving"} => srv.nreg = 1 /\ srv.dbinit = "ok"
        /\ srv.dbinit = "failed" =>
            /\ pc = "done"
            /\ result = ErrStart("database initialization failed: %v")
            /\ engine = NewServerEngine
            /\ srv.nreg = 0
            /\ ~srv.listened
            /\ nreq = 0

\* the server serves a request on the routes registered once
C14_Witness ==
    /\ op = "Start" /\ pc = "serving"
    /\ srv = [dbinit |-> "ok", nreg |-> 1, listened |-> TRUE]
    /\ nreq > 0
    /\ req.handler = "HealthCheck"
    /\ resp.status = 200

\* C16: a token with which a logout was made is then rejected: every later
\* request that presents it to a route behind JWTAuth is answered 401.
C16_LogoutInvalidatesAsStated ==
    (req.protected /\ req.revoked) => resp.status = 401

\* C20: an UpdateUserInfo request for a username that another user has is
\* answered 400 'Username already exists' and the stored username of the
\* requesting user stays what it was.
C20_UsernameConflictAsStated ==
    (req.handler = "UpdateUserInfo" /\ req.conflict) =>
        /\ resp = Response(400, "Username already exists")
        /\ GetByID(db, req.before.id)[1].username = req.before.username

----------------------------------------------------------------------------
(* SpecCache: goroutines calling the content cache of package service.  A   *)
(* call takes the lock, works on the map, and releases the lock when it     *)
(* returns (the deferred unlock); goroutines interleave between the steps.  *)

MaxGoroutines == 2     \* goroutines calling the cache

Goroutines == 1..MaxGoroutines

SubIDs == { 1, 2 }

Contents == { "a", "b" }

ErrContentNotFound == "subscription content not found"

\* subContentStore[k] = v
MapSet(m, k, v) == [x \in DOMAIN m \cup {k} |-> IF x = k THEN v ELSE m[x]]

\* delete(subContentStore, k)
MapDelete(m, k) == [x \in DOMAIN m \ {k} |-> m[x]]

\* content, exists := subContentStore[k] and the two returns of GetSubContent
MapGet(m, k) ==
    IF k \in DOMAIN m THEN <<m[k], NoError>> ELSE <<"", ErrContentNotFound>>

\* a goroutine outside the cache
Idle == [fn |-> "none", pc |-> "idle", subID |-> 0, content |-> "",
         ret |-> <<"", NoError>>]

CacheCall(fn, subID, content) ==
    [Idle EXCEPT !.fn = fn, !.pc = "called", !.subID = subID, !.content = content]

CacheCalls ==
    { CacheCall("StoreSubContent", id, c) : id \in SubIDs, c \in Contents }
    \cup { CacheCall("GetSubContent", id, "") : id \in SubIDs }
    \cup { CacheCall("DeleteSubContent", id, "") : id \in SubIDs }
    \cup { CacheCall("ClearAllContent", 0, "") }

\* the functions that take the write lock
Writers == { "StoreSubContent", "DeleteSubContent", "ClearAllContent" }

InitCache ==
    /\ BuilderIdle
    /\ MoreIdle
    /\ RegistrarIdle
    /\ db = DbClosed
    /\ ServerIdle
    /\ subContentStore = EmptyMap
    /\ subContentStoreMutex = RWMutexFree
    /\ goroutines = [g \in Goroutines |-> Idle]
    /\ completed = EmptyMap
    /\ cron = NoCron
    /\ subcall = NoSubCall

\* goroutine g calls one of the four functions
Call(g) ==
    /\ goroutines[g].pc = "idle"
    /\ \E call \in CacheCalls : goroutines' = [goroutines EXCEPT ![g] = call]
    /\ UNCHANGED <<subContentStore, subContentStoreMutex, completed>>
    /\ UNCHANGED <<bvars, rvars, db, svars, cron, subcall, yvars>>

\* Lock, were it not to wait for the readers inside
Lock_NoWait(g) ==
    /\ goroutines[g].pc = "called"
    /\ goroutines[g].fn \in Writers
    /\ ~subContentStoreMutex.w
    /\ subContentStoreMutex' = [subContentStoreMutex EXCEPT !.w = TRUE]
    /\ goroutines' = [goroutines EXCEPT ![g].pc = "locked"]
    /\ UNCHANGED <<subContentStore, completed>>
    /\ UNCHANGED <<bvars, rvars, db, svars, cron, subcall, yvars>>

\* subContentStoreMutex.Lock(): returns when no writer and no reader is inside
Lock(g) ==
    /\ goroutines[g].pc = "called"
    /\ goroutines[g].fn \in Writers
    /\ ~subContentStoreMutex.w
    /\ subContentStoreMutex.r = 0
    /\ subContentStoreMutex' = [subContentStoreMutex EXCEPT !.w = TRUE]
    /\ goroutines' = [goroutines EXCEPT ![g].pc = "locked"]
    /\ UNCHANGED <<subContentStore, completed>>
    /\ UNCHANGED <<bvars, rvars, db, svars, cron, subcall, yvars>>

\* subContentStoreMutex.RLock(): returns when no writer is inside
RLock(g) ==
    /\ goroutines[g].pc = "called"
    /\ goroutines[g].fn = "GetSubContent"
    /\ ~subContentStoreMutex.w
    /\ subContentStoreMutex' = [subContentStoreMutex EXCEPT !.r = @ + 1]
    /\ goroutines' = [goroutines EXCEPT ![g].pc = "locked"]
    /\ UNCHANGED <<subContentStore, completed>>
    /\ UNCHANGED <<bvars, rvars, db, svars, cron, subcall, yvars>>

\* the body of StoreSubContent
StoreSubContent(g) ==
    /\ goroutines[g].pc = "locked"
    /\ goroutines[g].fn = "StoreSubContent"
    /\ subContentStore' = MapSet(subContentStore, goroutines[g].subID,
                                 goroutines[g].content)
    /\ goroutines' = [goroutines EXCEPT ![g].pc = "returning"]
    /\ UNCHANGED <<subContentStoreMutex, completed>>
    /\ UNCHANGED <<bvars, rvars, db, svars, cron, subcall, yvars>>

\* the body of GetSubContent
GetSubContent(g) ==
    /\ goroutines[g].pc = "locked"
    /\ goroutines[g].fn = "GetSubContent"
    /\ goroutines' = [goroutines EXCEPT
                         ![g].pc = "returning",
                         ![g].ret = MapGet(subContentStore, goroutines[g].subID)]
    /\ UNCHANGED <<subContentStore, subContentStoreMutex, completed>>
    /\ UNCHANGED <<bvars, rvars, db, svars, cron, subcall, yvars>>

\* the body of DeleteSubContent
DeleteSubContent(g) ==
    /\ goroutines[g].pc = "locked"
    /\ goroutines[g].fn = "DeleteSubContent"
    /\ subContentStore' = MapDelete(subContentStore, goroutines[g].subID)
    /\ goroutines' = [goroutines EXCEPT ![g].pc = "returning"]
    /\ UNCHANGED <<subContentStoreMutex, completed>>
    /\ UNCHANGED <<bvars, rvars, db, svars, cron, subcall, yvars>>

\* the body of ClearAllContent
ClearAllContent(g) ==
    /\ goroutines[g].pc = "locked"
    /\ goroutines[g].fn = "ClearAllContent"
    /\ subContentStore' = EmptyMap
    /\ goroutines' = [goroutines EXCEPT ![g].pc = "returning"]
    /\ UNCHANGED <<subContentStoreMutex, completed>>
    /\ UNCHANGED <<bvars, rvars, db, svars, cron, subcall, yvars>>

\* what a call that has returned leaves stored
Effect(m, call) ==
    CASE call.fn = "StoreSubContent" -> MapSet(m, call.subID, call.content)
      [] call.fn = "DeleteSubContent" -> MapDelete(m, call.subID)
      [] call.fn = "ClearAllContent" -> EmptyMap
      [] OTHER -> m

\* the deferred subContentStoreMutex.Unlock(): the writer returns
Unlock(g) ==
    /\ goroutines[g].pc = "returning"
    /\ goroutines[g].fn \in Writers
    /\ subContentStoreMutex' = [subContentStoreMutex EXCEPT !.w = FALSE]
    /\ completed' = Effect(completed, goroutines[g])
    /\ goroutines' = [goroutines EXCEPT ![g] = Idle]
    /\ UNCHANGED subContentStore
    /\ UNCHANGED <<bvars, rvars, db, svars, cron, subcall, yvars>>

\* the deferred subContentStoreMutex.RUnlock(): GetSubContent returns
RUnlock(g) ==
    /\ goroutines[g].pc = "returning"
    /\ goroutines[g].fn = "GetSubContent"
    /\ subContentStoreMutex' = [subContentStoreMutex EXCEPT !.r = @ - 1]
    /\ goroutines' = [goroutines EXCEPT ![g] = Idle]
    /\ UNCHANGED <<subContentStore, completed>>
    /\ UNCHANGED <<bvars, rvars, db, svars, cron, subcall, yvars>>

NextCache ==
    \E g \in Goroutines :
        \/ Call(g)
        \/ Lock(g)
        \/ RLock(g)
        \/ StoreSubContent(g)
        \/ GetSubContent(g)
        \/ DeleteSubContent(g)
        \/ ClearAllContent(g)
        \/ Unlock(g)
        \/ RUnlock(g)

SpecCache == InitCache /\ [][NextCache]_vars

\* goroutine g is between taking and releasing the lock
Inside(g) == goroutines[g].pc \in { "locked", "returning" }

\* C15: a call that writes the cache is inside the lock with no other call,
\* writing or reading; and what GetSubContent(id) returns is the content of
\* the latest StoreSubContent(id) that has returned with no DeleteSubContent(id)
\* or ClearAllContent returned after it, or ErrContentNotFound without one.
C15_CacheExclusiveAndLatest ==
    /\ \A g, h \in DOMAIN goroutines :
        (g # h /\ Inside(g) /\ goroutines[g].fn \in Writers) => ~Inside(h)
    /\ \A g \in DOMAIN goroutines :
        (goroutines[g].fn = "GetSubContent" /\ goroutines[g].pc = "returning") =>
            goroutines[g].ret = MapGet(completed, goroutines[g].subID)

\* a reader is inside and returns the content stored last while a writer to
\* the same id waits for the lock
C15_Witness ==
    \E g, h \in DOMAIN goroutines :
        /\ g # h
        /\ goroutines[g].fn = "GetSubContent"
        /\ goroutines[g].pc = "returning"
        /\ goroutines[g].ret = <<"b", NoError>>
        /\ goroutines[h].fn \in { "StoreSubContent", "DeleteSubContent" }
        /\ goroutines[h].subID = goroutines[g].subID
        /\ goroutines[h].pc = "called"

----------------------------------------------------------------------------
(* SpecCron: validator.ValidateCron applied to cron expressions.  A string  *)
(* is the sequence of its pieces: each run of white space (" "), each run   *)
(* of digits (a numeral) and each other character.                          *)

MaxFields == 6         \* fields of the expressions validated

ErrInvalidCronFormat == "invalid cron expression format"

ErrInvalidCronValue == "invalid cron expression value"

Numerals == { "0", "1", "2", "3", "5", "7", "13", "24", "32", "60", "99" }

\* the number a numeral spells
Atoi(numeral) ==
    CASE numeral = "0" -> 0   [] numeral = "1" -> 1   [] numeral = "2" -> 2
      [] numeral = "3" -> 3   [] numeral = "5" -> 5   [] numeral = "7" -> 7
      [] numeral = "13" -> 13 [] numeral = "24" -> 24 [] numeral = "32" -> 32
      [] numeral = "60" -> 60 [] numeral = "99" -> 99

\* the min and max that the validations table declares for the five fields
CronRanges ==
    << [min |-> 0, max |-> 59], [min |-> 0, max |-> 23], [min |-> 1, max |-> 31],
       [min |-> 1, max |-> 12], [min |-> 0, max |-> 6] >>

RECURSIVE TrimLeft(_)
TrimLeft(s) == IF s # <<>> /\ Head(s) = " " THEN TrimLeft(Tail(s)) ELSE s

RECURSIVE TrimRight(_)
TrimRight(s) ==
    IF s # <<>> /\ s[Len(s)] = " " THEN TrimRight(SubSeq(s, 1, Len(s) - 1)) ELSE s

\* strings.TrimSpace
TrimSpace(s) == TrimRight(TrimLeft(s))

RECURSIVE Split(_, _)
\* strings.Split: the parts between the separators, empty parts included
Split(s, sep) ==
    IF \A i \in DOMAIN s : s[i] # sep THEN << s >>
    ELSE LET i == CHOOSE k \in DOMAIN s :
                      s[k] = sep /\ \A j \in 1..(k - 1) : s[j] # sep
         IN  << SubSeq(s, 1, i - 1) >> \o Split(SubSeq(s, i + 1, Len(s)), sep)

\* strings.Fields: the parts between runs of white space, none of them empty
Fields(s) == SelectSeq(Split(s, " "), LAMBDA part : part # <<>>)

\* strings.Contains for a one-character substring
Contains(s, c) == \E i \in DOMAIN s : s[i] = c

\* regexp ^(\*|[0-9\-\*\/,]+)$
MatchesPattern(field) ==
    /\ field # <<>>
    /\ \A i \in DOMAIN field : field[i] \in Numerals \cup { "-", "*", "/", "," }

RECURSIVE ValidateValues(_, _)
\* the loop over the values of one field, from the k-th on
ValidateValues(values, k) ==
    IF k > Len(values) THEN NoError
    ELSE IF Contains(values[k], "-")
    THEN IF Len(Split(values[k], "-")) # 2 THEN ErrInvalidCronValue
         ELSE ValidateValues(values, k + 1)
    ELSE IF Contains(values[k], "/")
    THEN IF Len(Split(values[k], "/")) # 2 THEN ErrInvalidCronValue
         ELSE ValidateValues(values, k + 1)
    ELSE ValidateValues(values, k + 1)

RECURSIVE ValidateFields(_, _)
\* the loop over the validations table, from the i-th entry on
ValidateFields(parts, i) ==
    IF i > Len(parts) THEN NoError
    ELSE IF ~MatchesPattern(parts[i]) THEN ErrInvalidCronFormat
    ELSE IF parts[i] = << "*" >> THEN ValidateFields(parts, i + 1)
    ELSE LET err == ValidateValues(Split(parts[i], ","), 1)
         IN  IF err # NoError THEN err ELSE ValidateFields(parts, i + 1)

ValidateCron(expr) ==
    LET parts == Fields(TrimSpace(expr))
    IN  IF Len(parts) # 5 THEN ErrInvalidCronFormat
        ELSE ValidateFields(parts, 1)

\* the fields the expressions are made of
FieldPool ==
    { << "*" >>, << "5" >>, << "0" >>, << "7" >>, << "13" >>, << "24" >>,
      << "32" >>, << "60" >>, << "x" >>,
      << "1", "-", "5" >>, << "1", "-", "2", "-", "3" >>, << "5", "-", "99" >>,
      << "*", "/", "5" >>, << "1", "/", "2", "/", "3" >>, << "1", ",", "99" >> }

RECURSIVE Spell(_, _)
\* the fields written out with white space between them (and around them
\* when padded)
Spell(fields, padded) ==
    IF fields = <<>> THEN IF padded THEN << " " >> ELSE <<>>
    ELSE (IF padded THEN << " " >> ELSE <<>>)
         \o Head(fields)
         \o (IF Len(fields) > 1 /\ ~padded THEN << " " >> ELSE <<>>)
         \o Spell(Tail(fields), padded)

InitCron ==
    /\ BuilderIdle
    /\ MoreIdle
    /\ RegistrarIdle
    /\ db = DbClosed
    /\ ServerIdle
    /\ subContentStore = EmptyMap
    /\ subContentStoreMutex = RWMutexFree
    /\ goroutines = <<>>
    /\ completed = EmptyMap
    /\ subcall = NoSubCall
    /\ \E n \in 0..MaxFields, i, j \in 1..MaxFields, fi, fj \in FieldPool,
          padded \in BOOLEAN :
        cron = [expr |-> Spell([k \in 1..n |-> IF k = i THEN fi
                                               ELSE IF k = j THEN fj
                                               ELSE << "*" >>], padded),
                err |-> "none"]

CallValidateCron ==
    /\ cron.err = "none"
    /\ cron' = [cron EXCEPT !.err = ValidateCron(cron.expr)]
    /\ UNCHANGED <<bvars, rvars, db, svars, cvars, subcall, yvars>>

NextCron == CallValidateCron

SpecCron == InitCron /\ [][NextCron]_vars

\* every character of every field is one the pattern allows
WellFormed(parts) == \A i \in DOMAIN parts : MatchesPattern(parts[i])

\* every number in the i-th field is inside the range declared for it
InRange(parts, i) ==
    \A k \in DOMAIN parts[i] :
        parts[i][k] \in Numerals =>
            /\ Atoi(parts[i][k]) >= CronRanges[i].min
            /\ Atoi(parts[i][k]) <= CronRanges[i].max

\* C18: ValidateCron accepts an expression only if it has exactly five
\* fields and every number in a field is inside the range declared for the
\* field; a wrong field count gives ErrInvalidCronFormat, a wrong character
\* gives ErrInvalidCronFormat (or ErrInvalidCronValue, when a field before it
\* has a bad value), and a number out of range gives ErrInvalidCronValue.
C18_RangeCheckedAsStated ==
    cron.err # "none" =>
        LET parts == Fields(cron.expr)
        IN  /\ cron.err = NoError =>
                /\ Len(parts) = 5
                /\ \A i \in 1..5 : InRange(parts, i)
            /\ Len(parts) # 5 => cron.err = ErrInvalidCronFormat
            /\ (Len(parts) = 5 /\ ~WellFormed(parts)) =>
                cron.err \in { ErrInvalidCronFormat, ErrInvalidCronValue }
            /\ (Len(parts) = 5 /\ WellFormed(parts)
                  /\ \E i \in 1..5 : ~InRange(parts, i)) =>
                cron.err = ErrInvalidCronValue

----------------------------------------------------------------------------
(* SpecSubs: calls of SQLSubRepository.Create, Update and Delete on the     *)
(* subs table, each inside its transaction.  A row is its id and its url.   *)

MaxSubs == 3           \* rows ever inserted into subs

URLs == { "u1", "u2" }

ErrSubNotFound == "sub not found"

ErrSubExists == "sub already exists"

\* SELECT EXISTS(SELECT 1 FROM subs WHERE url = ?)
UrlExists(d, url) == \E row \in d.subs : row.url = url

\* SELECT EXISTS(SELECT 1 FROM subs WHERE id = ?)
IdExists(d, id) == \E row \in d.subs : row.id = id

\* SQLSubRepository.Create: <<the database, the error>>
SubCreate(d, url) ==
    IF UrlExists(d, url) THEN <<d, ErrSubExists>>
    ELSE <<[d EXCEPT !.subs = @ \cup { [id |-> d.nextSub, url |-> url] },
                     !.nextSub = @ + 1], NoError>>

\* SQLSubRepository.Update: <<the database, the error>>
SubUpdate(d, id, url) ==
    IF ~IdExists(d, id) THEN <<d, ErrSubNotFound>>
    ELSE <<[d EXCEPT !.subs = { IF row.id = id THEN [row EXCEPT !.url = url]
                                ELSE row : row \in @ }], NoError>>

\* SQLSubRepository.Delete: <<the database, the error>>
SubDelete(d, id) ==
    IF ~IdExists(d, id) THEN <<d, ErrSubNotFound>>
    ELSE <<[d EXCEPT !.subs = { row \in @ : row.id # id }], NoError>>

\* the call made, its error, whether its url was stored in a row before it
\* and whether it added a row
SubCall(fn, id, url, done) ==
    [op |-> fn, id |-> id, url |-> url, err |-> done[2],
     stored |-> UrlExists(db, url),
     inserted |-> Cardinality(done[1].subs) > Cardinality(db.subs)]

InitSubs ==
    /\ BuilderIdle
    /\ MoreIdle
    /\ RegistrarIdle
    /\ db = InitDatabase(DbClosed)
    /\ ServerIdle
    /\ subContentStore = EmptyMap
    /\ subContentStoreMutex = RWMutexFree
    /\ goroutines = <<>>
    /\ completed = EmptyMap
    /\ cron = NoCron
    /\ subcall = NoSubCall

CallCreate ==
    /\ db.open
    /\ db.nextSub <= MaxSubs
    /\ \E url \in URLs :
        LET done == SubCreate(db, url)
        IN  /\ db' = done[1]
            /\ subcall' = SubCall("Create", 0, url, done)
    /\ UNCHANGED <<bvars, rvars, svars, cvars, cron, yvars>>

CallUpdate ==
    /\ db.open
    /\ \E id \in 1..MaxSubs, url \in URLs :
        LET done == SubUpdate(db, id, url)
        IN  /\ db' = done[1]
            /\ subcall' = SubCall("Update", id, url, done)
    /\ UNCHANGED <<bvars, rvars, svars, cvars, cron, yvars>>

CallDelete ==
    /\ db.open
    /\ \E id \in 1..MaxSubs :
        LET done == SubDelete(db, id)
        IN  /\ db' = done[1]
            /\ subcall' = SubCall("Delete", id, "", done)
    /\ UNCHANGED <<bvars, rvars, svars, cvars, cron, yvars>>

NextSubs ==
    \/ CallCreate
    \/ CallUpdate
    \/ CallDelete

SpecSubs == InitSubs /\ [][NextSubs]_vars

\* C19: whatever Create, Update and Delete calls have been made, no two rows
\* of subs have the same url; and a Create whose url is stored already
\* returns ErrSubExists and inserts nothing.
C19_UrlUniqueAsStated ==
    /\ \A r1, r2 \in db.subs : r1.url = r2.url => r1.id = r2.id
    /\ (subcall.op = "Create" /\ subcall.stored) =>
        /\ subcall.err = ErrSubExists
        /\ ~subcall.inserted

----------------------------------------------------------------------------
(* Further claims about the server *)

\* the bindings of the engine that answer to the method and path
BoundFor(e, verb, path) ==
    { k \in DOMAIN e.bindings :
        e.bindings[k].verb = verb /\ FullPath(e, e.bindings[k]) = path }

\* name stands in the chain before its last handler
Before(chain, name) == \E i \in 1..(Len(chain) - 1) : chain[i] = name

\* the endpoint is bound exactly once, ends with its handler and has JWTAuth
\* before the handler exactly when guarded
BoundOnce(e, verb, path, handler, guarded) ==
    /\ Cardinality(BoundFor(e, verb, path)) = 1
    /\ \A k \in BoundFor(e, verb, path) :
        /\ HandlerOf(e.bindings[k].chain) = handler
        /\ Before(e.bindings[k].chain, "JWTAuth") <=> guarded

\* C23: once RegisterGroup has run on the UserHandler, each of POST
\* /api/user/login, POST /api/user/logout, GET /api/user/info and PUT
\* /api/user/info is bound exactly once; login has no JWTAuth in its chain
\* and the other three have JWTAuth before their handler.
C23_UserEndpoints ==
    Started =>
        /\ BoundOnce(engine, POST, ApiUserPath \o <<"/", "login">>, "Login", FALSE)
        /\ BoundOnce(engine, POST, ApiUserPath \o <<"/", "logout">>, "Logout", TRUE)
        /\ BoundOnce(engine, GET, ApiUserPath \o <<"/", "info">>, "GetUserInfo", TRUE)
        /\ BoundOnce(engine, PUT, ApiUserPath \o <<"/", "info">>, "UpdateUserInfo", TRUE)

\* a login made without a token has been served, the two groups of prefix
\* /api/user being on the engine
C23_Witness ==
    /\ Started
    /\ Cardinality({ g \in DOMAIN engine.groups :
                       engine.groups[g].Path = ApiUserPath }) = 2
    /\ req.handler = "Login"
    /\ ~req.protected
    /\ resp.status = 200

----------------------------------------------------------------------------
(* SpecJWT: one request through a chain of JWTAuth and a handler *)

\* user_id claims: numbers (1.5 among them), a string, none
UserClaims ==
    { Number(1), Number(2), [type |-> "number", int |-> 1, frac |-> 5],
      [type |-> "string", int |-> 0, frac |-> 0], NoClaim }

Tokens == [user : UserClaims, exp : 0..MaxTime, sig : {"good", "bad", "RS256"}]

\* Authorization headers: none, "Bearer <t>", "bearer <t>", "Basic <t>",
\* "Bearer" alone, "Bearer <t> x"
Headers ==
    { NoAuth }
    \cup { [scheme |-> scheme, parts |-> parts, token |-> t] :
             scheme \in {"Bearer", "bearer", "Basic"}, parts \in 1..3,
             t \in Tokens }

InitJWT ==
    /\ BuilderIdle
    /\ RegistrarIdle
    /\ db = DbClosed
    /\ ServerIdle
    /\ subContentStore = EmptyMap
    /\ subContentStoreMutex = RWMutexFree
    /\ goroutines = <<>>
    /\ completed = EmptyMap
    /\ cron = NoCron
    /\ subcall = NoSubCall
    /\ fetch = NotCalled
    /\ txn = NotCalled
    /\ mig = NotCalled
    /\ \E auth \in Headers, time \in 0..MaxTime :
        jwt = [pc |-> "called", auth |-> auth, time |-> time,
               out |-> Pass, ran |-> FALSE, userID |-> NoClaim]

\* gin runs the chain <<JWTAuth, handler>>: the handler runs unless JWTAuth
\* aborted, and reads user_id from the context
ServeJWT ==
    /\ jwt.pc = "called"
    /\ LET out == RunMiddlewares(<<"JWTAuth", "handler">>, 1, GET, "",
                                 jwt.auth, jwt.time)
       IN  jwt' = [jwt EXCEPT
                      !.pc = "done",
                      !.out = out,
                      !.ran = ~out.abort,
                      !.userID = IF out.abort THEN NoClaim
                                 ELSE Number(ContextUserID(jwt.auth))]
    /\ UNCHANGED <<bvars, rvars, db, svars, cvars, cron, subcall, fetch, txn, mig>>

NextJWT == ServeJWT

SpecJWT == InitJWT /\ [][NextJWT]_vars

\* the header is exactly "Bearer <token>", the token is signed by HMAC with
\* the configured secret, is not expired, and its user_id is a number
Admissible(auth, time) ==
    /\ auth.scheme = "Bearer" /\ auth.parts = 2
    /\ auth.token.sig = "good"
    /\ time <= auth.token.exp
    /\ auth.token.user.type = "number"

----------------------------------------------------------------------------
(* SpecFetch: one GET /api/sub/:id/content through FetchSubContent,          *)
(* FetchSub and fetchContent.  An error is the chain of its messages, outer *)
(* first: fmt.Errorf with %w puts a message before the chain it wraps,      *)
(* without %w it makes a chain of the message alone.                        *)

ErrFetchFailed == "failed to fetch subscription data"

ErrInvalidSubURL == "invalid subscription URL"

\* a sentinel error, and no error
Sentinel(message) == << message >>

NilError == <<>>

\* fmt.Errorf("message: %w", err)
Wrap(message, err) == << message >> \o err

\* errors.Is
ErrorsIs(err, target) == \E i \in DOMAIN err : err[i] = target

\* the rows of subs in the databases served: a good url and one that
\* url.ParseRequestURI rejects
SubRows == { [id |-> 1, url |-> "u1"], [id |-> 2, url |-> "not a url"] }

\* url.ParseRequestURI accepts the url
ParsesAsURI(url) == url \in URLs

\* what the HTTP GET of the url comes to: a transport error, a response
\* with a status whose body can be read (content) or not
HTTPOutcomes ==
    { [kind |-> "transport error", status |-> 0, content |-> ""] }
    \cup { [kind |-> "response", status |-> status, content |-> c] :
             status \in {200, 404}, c \in Contents }
    \cup { [kind |-> "body unreadable", status |-> 200, content |-> ""] }

\* SQLSubRepository.GetByID: <<found, the error>>
SubGetByID(d, id) ==
    IF IdExists(d, id) THEN <<TRUE, NilError>> ELSE <<FALSE, Sentinel(ErrSubNotFound)>>

\* SubFetcher.fetchContent: <<the content, the error>>
fetchContent(url, http) ==
    IF ~ParsesAsURI(url) THEN <<"", Sentinel(ErrInvalidSubURL)>>
    ELSE IF http.kind = "transport error"
    THEN <<"", Wrap("failed to send request", Sentinel("transport error"))>>
    ELSE IF http.status # 200
    THEN <<"", Sentinel("unexpected response status")>>
    ELSE IF http.kind = "body unreadable"
    THEN <<"", Wrap("failed to read response body", Sentinel("read error"))>>
    ELSE <<http.content, NilError>>

\* SubFetcher.FetchSub: <<the cache, the error>>; gone is whether the row
\* has been deleted by the time it is read again
FetchSub(d, cache, id, http, gone) ==
    LET got == SubGetByID(d, id)
        url == (CHOOSE row \in d.subs : row.id = id).url
        fetched == fetchContent(url, http)
    IN  IF got[2] # NilError
        THEN <<cache, Wrap("failed to get subscription", got[2])>>
        ELSE IF fetched[2] # NilError
        THEN <<cache, Wrap("failed to fetch content", fetched[2])>>
        ELSE IF gone
        THEN <<MapSet(cache, id, fetched[1]),
               Wrap("failed to get updated subscription", Sentinel(ErrSubNotFound))>>
        ELSE <<MapSet(cache, id, fetched[1]), NilError>>

\* SubHandler.FetchSubContent: <<the cache, the response>>; param is the :id
\* of the path and whether strconv.ParseInt accepts it
FetchSubContent(d, cache, param, http, gone) ==
    LET done == FetchSub(d, cache, param.id, http, gone)
    IN  IF ~param.ok THEN <<cache, Response(400, "Invalid subscription ID")>>
        ELSE IF done[2] = NilError THEN <<done[1], Response(200, "Success")>>
        ELSE IF ErrorsIs(done[2], ErrSubNotFound)
        THEN <<done[1], Response(404, "Subscription not found")>>
        ELSE IF ErrorsIs(done[2], ErrInvalidSubURL)
        THEN <<done[1], Response(400, "Invalid subscription URL")>>
        ELSE IF ErrorsIs(done[2], ErrFetchFailed)
        THEN <<done[1], Response(503, "Failed to fetch subscription data")>>
        ELSE <<done[1], Response(500, "Failed to fetch subscription content")>>

InitFetch ==
    /\ BuilderIdle
    /\ RegistrarIdle
    /\ ServerIdle
    /\ subContentStoreMutex = RWMutexFree
    /\ goroutines = <<>>
    /\ completed = EmptyMap
    /\ cron = NoCron
    /\ subcall = NoSubCall
    /\ jwt = NotCalled
    /\ txn = NotCalled
    /\ mig = NotCalled
    /\ \E rows \in SUBSET SubRows :
        db = [InitDatabase(DbClosed) EXCEPT !.subs = rows, !.nextSub = 3]
    /\ subContentStore \in { EmptyMap, MapSet(EmptyMap, 1, "a") }
    /\ \E param \in { [ok |-> TRUE, id |-> 1], [ok |-> TRUE, id |-> 2],
                      [ok |-> FALSE, id |-> 0] },
          http \in HTTPOutcomes, gone \in BOOLEAN :
        fetch = [pc |-> "called", param |-> param, http |-> http,
                 gone |-> gone, found |-> FALSE, url |-> "",
                 resp |-> NoResponse]

ServeFetchSubContent ==
    /\ fetch.pc = "called"
    /\ LET done == FetchSubContent(db, subContentStore, fetch.param,
                                   fetch.http, fetch.gone)
       IN  /\ subContentStore' = done[1]
           /\ fetch' = [fetch EXCEPT
                           !.pc = "done",
                           !.found = IdExists(db, fetch.param.id),
                           !.url = IF IdExists(db, fetch.param.id)
                                   THEN (CHOOSE row \in db.subs :
                                            row.id = fetch.param.id).url
                                   ELSE "",
                           !.resp = done[2]]
    /\ db' = IF fetch.gone
             THEN [db EXCEPT !.subs = { row \in @ : row.id # fetch.param.id }]
             ELSE db
    /\ UNCHANGED <<bvars, rvars, svars, subContentStoreMutex, goroutines,
                   completed, cron, subcall, jwt, txn, mig>>

NextFetch == ServeFetchSubContent

SpecFetch == InitFetch /\ [][NextFetch]_vars

\* the subscription exists, its url parses, and the GET of the url failed
\* in transport or came back with a status other than 200
RetrievalFailed ==
    /\ fetch.found
    /\ ParsesAsURI(fetch.url)
    /\ \/ fetch.http.kind = "transport error"
       \/ fetch.http.kind = "response" /\ fetch.http.status # 200

\* C21: FetchSubContent answers 404 when the subscription is not found, 400
\* when its url does not parse, 503 when the retrieval of the url failed
\* (transport error or a status other than 200), and 500 only for other
\* failures.
C21_FetchStatusAsStated ==
    (fetch.pc = "done" /\ fetch.param.ok) =>
        /\ ~fetch.found => fetch.resp.status = 404
        /\ (fetch.found /\ ~ParsesAsURI(fetch.url)) => fetch.resp.status = 400
        /\ RetrievalFailed => fetch.resp.status = 503
        /\ fetch.resp.status = 500 =>
            /\ fetch.found
            /\ ParsesAsURI(fetch.url)
            /\ ~RetrievalFailed

----------------------------------------------------------------------------
(* SpecTx: one call of database.WithTransaction.  The writes fn makes go to *)
(* the transaction (txn.pending) and reach the table when it commits.       *)

\* what fn does: the write it makes through tx (none, the deletion of row
\* 1, the insertion of a row 3) and how it ends
TxFns ==
    [write : {"none", "delete", "insert"},
     outcome : {"nil", "error", "panic"}]

\* the rows after the write of fn
Written(rows, write) ==
    CASE write = "delete" -> { row \in rows : row.id # 1 }
      [] write = "insert" -> rows \cup { [id |-> 3, url |-> "u2"] }
      [] OTHER -> rows

\* the error fn returns, and the value it panics with
FnError == Sentinel(ErrSubNotFound)

FnPanic == "panic in fn"

InitTx ==
    /\ BuilderIdle
    /\ RegistrarIdle
    /\ ServerIdle
    /\ subContentStore = EmptyMap
    /\ subContentStoreMutex = RWMutexFree
    /\ goroutines = <<>>
    /\ completed = EmptyMap
    /\ cron = NoCron
    /\ subcall = NoSubCall
    /\ jwt = NotCalled
    /\ fetch = NotCalled
    /\ mig = NotCalled
    /\ \E rows \in SUBSET SubRows :
        db = [InitDatabase(DbClosed) EXCEPT !.subs = rows, !.nextSub = 3]
    /\ \E fn \in TxFns :
        txn = [pc |-> "called", fn |-> fn, before |-> db.subs,
               tx |-> "none", pending |-> {}, err |-> NilError,
               commits |-> 0, rollbacks |-> 0,
               ret |-> [kind |-> "none", err |-> NilError, value |-> ""]]

TxUnchanged ==
    UNCHANGED <<bvars, rvars, svars, cvars, cron, subcall, jwt, fetch, mig>>

\* DB.BeginTx: the transaction is open, or WithTransaction returns the error
TxBegin ==
    /\ txn.pc = "called"
    /\ \/ txn' = [txn EXCEPT !.pc = "begun", !.tx = "open", !.pending = db.subs]
       \/ txn' = [txn EXCEPT
                     !.pc = "done",
                     !.ret = [kind |-> "return", value |-> "",
                              err |-> Wrap("failed to begin transaction",
                                           Sentinel("begin error"))]]
    /\ UNCHANGED db
    /\ TxUnchanged

\* err = fn(tx): fn writes through tx and returns nil or an error, or panics
TxRunFn ==
    /\ txn.pc = "begun"
    /\ txn' = [txn EXCEPT
                  !.pending = Written(@, txn.fn.write),
                  !.err = IF txn.fn.outcome = "error" THEN FnError ELSE NilError,
                  !.pc = IF txn.fn.outcome = "panic" THEN "panicking" ELSE "ran"]
    /\ UNCHANGED db
    /\ TxUnchanged

\* the return of an error, were the deferred function not to roll back
TxReturnError_NoRollback ==
    /\ txn.pc = "ran"
    /\ txn.err # NilError
    /\ txn' = [txn EXCEPT
                  !.pc = "done",
                  !.ret = [kind |-> "return", err |-> txn.err, value |-> ""]]
    /\ UNCHANGED db
    /\ TxUnchanged

\* if err != nil { return err }, then the deferred function: err != nil, so
\* tx.Rollback()
TxReturnError ==
    /\ txn.pc = "ran"
    /\ txn.err # NilError
    /\ txn' = [txn EXCEPT
                  !.pc = "done",
                  !.tx = "rolled back",
                  !.rollbacks = @ + 1,
                  !.pending = {},
                  !.ret = [kind |-> "return", err |-> txn.err, value |-> ""]]
    /\ UNCHANGED db
    /\ TxUnchanged

\* tx.Commit(): it succeeds and WithTransaction returns nil, or it fails and
\* WithTransaction returns the wrapped error (the err of the deferred
\* function is still nil, so it does nothing; the failed transaction is over)
TxCommit ==
    /\ txn.pc = "ran"
    /\ txn.err = NilError
    /\ \/ /\ db' = [db EXCEPT !.subs = txn.pending]
          /\ txn' = [txn EXCEPT
                        !.pc = "done",
                        !.tx = "committed",
                        !.commits = @ + 1,
                        !.ret = [kind |-> "return", err |-> NilError, value |-> ""]]
       \/ /\ UNCHANGED db
          /\ txn' = [txn EXCEPT
                        !.pc = "done",
                        !.tx = "commit failed",
                        !.commits = @ + 1,
                        !.pending = {},
                        !.ret = [kind |-> "return", value |-> "",
                                 err |-> Wrap("failed to commit transaction",
                                              Sentinel("commit error"))]]
    /\ TxUnchanged

\* fn panicked: the deferred function recovers p, rolls back and panics
\* with p again
TxPanic ==
    /\ txn.pc = "panicking"
    /\ txn' = [txn EXCEPT
                  !.pc = "done",
                  !.tx = "rolled back",
                  !.rollbacks = @ + 1,
                  !.pending = {},
                  !.ret = [kind |-> "panic", err |-> NilError, value |-> FnPanic]]
    /\ UNCHANGED db
    /\ TxUnchanged

NextTx ==
    \/ TxBegin
    \/ TxRunFn
    \/ TxReturnError
    \/ TxCommit
    \/ TxPanic

SpecTx == InitTx /\ [][NextTx]_vars

\* C24: WithTransaction commits exactly when fn returned nil without a
\* panic; when fn returns an error the transaction is rolled back, that
\* error is returned and no write of fn is visible; when fn panics the
\* transaction is rolled back and WithTransaction panics with the same value.
C24_WithTransaction ==
    /\ txn.pc # "none" =>
        /\ txn.commits + txn.rollbacks <= 1
        /\ txn.tx = "committed" =>
            /\ txn.fn.outcome = "nil"
            /\ db.subs = Written(txn.before, txn.fn.write)
        /\ txn.tx # "committed" => db.subs = txn.before
    /\ (txn.pc = "done" /\ txn.tx # "none") =>
        /\ txn.commits = 1 <=> txn.fn.outcome = "nil"
        /\ txn.fn.outcome = "error" =>
            /\ txn.tx = "rolled back"
            /\ txn.ret = [kind |-> "return", err |-> FnError, value |-> ""]
            /\ db.subs = txn.before
        /\ txn.fn.outcome = "panic" =>
            /\ txn.tx = "rolled back"
            /\ txn.ret = [kind |-> "panic", err |-> NilError, value |-> FnPanic]

\* fn deleted a row that was there and returned an error: the row is still
\* in the table after the rollback
C24_Witness ==
    /\ txn.pc = "done"
    /\ txn.fn = [write |-> "delete", outcome |-> "error"]
    /\ \E row \in txn.before : row.id = 1
    /\ txn.tx = "rolled back"
    /\ db.subs = txn.before

----------------------------------------------------------------------------
(* SpecMigrations: runs of database.RunMigrations on one database.  The     *)
(* database is the rows of its migrations table (their versions, in the     *)
(* order inserted) and the migrations whose Execute has been carried out on *)
(* it; a run works on the copy its transaction sees.                        *)

MaxRuns == 3           \* runs of RunMigrations on the database

\* var migrations: the versions, in the order of the slice
Migrations == << 1, 2 >>

\* SELECT COALESCE(MAX(version), 0) FROM migrations
getCurrentVersion(recorded) ==
    IF recorded = <<>> THEN 0
    ELSE CHOOSE v \in { recorded[k] : k \in DOMAIN recorded } :
             \A k \in DOMAIN recorded : recorded[k] <= v

\* a database: the versions recorded and the migrations executed
Migrated(versions) == [recorded |-> versions, executed |-> versions]

ErrMigration(message) ==
    [kind |-> "return", err |-> Wrap(message, Sentinel("sql error"))]

InitMigrations ==
    /\ BuilderIdle
    /\ RegistrarIdle
    /\ db = DbClosed
    /\ ServerIdle
    /\ subContentStore = EmptyMap
    /\ subContentStoreMutex = RWMutexFree
    /\ goroutines = <<>>
    /\ completed = EmptyMap
    /\ cron = NoCron
    /\ subcall = NoSubCall
    /\ jwt = NotCalled
    /\ fetch = NotCalled
    /\ txn = NotCalled
    /\ \E n \in 0..Len(Migrations) :
        mig = [pc |-> "called", runs |-> 1,
               stored |-> Migrated(SubSeq(Migrations, 1, n)),
               before |-> Migrated(SubSeq(Migrations, 1, n)),
               tx |-> Migrated(<<>>), cur |-> 0, i |-> 1, done |-> <<>>,
               ret |-> [kind |-> "none", err |-> NilError],
               clean |-> TRUE]

MigUnchanged ==
    UNCHANGED <<bvars, rvars, db, svars, cvars, cron, subcall, jwt, fetch, txn>>

\* the return of an error: the deferred tx.Rollback() drops what the
\* transaction did
MigFail(message) ==
    mig' = [mig EXCEPT !.pc = "returned", !.tx = Migrated(<<>>),
                       !.ret = ErrMigration(message)]

\* db.BeginTx
MigBegin ==
    /\ mig.pc = "called"
    /\ \/ mig' = [mig EXCEPT !.pc = "begun", !.tx = mig.stored]
       \/ mig' = [mig EXCEPT !.pc = "returned",
                             !.ret = ErrMigration("failed to begin transaction")]
    /\ MigUnchanged

\* ensureMigrationTableExists and getCurrentVersion
MigCurrentVersion ==
    /\ mig.pc = "begun"
    /\ \/ mig' = [mig EXCEPT !.pc = "loop", !.i = 1,
                             !.cur = getCurrentVersion(mig.tx.recorded)]
       \/ MigFail("failed to get current migration version")
    /\ MigUnchanged

\* one iteration of the loop, were no migration skipped
MigApply_NoSkip ==
    /\ mig.pc = "loop"
    /\ mig.i <= Len(Migrations)
    /\ LET version == Migrations[mig.i]
       IN  \/ mig' = [mig EXCEPT
                          !.i = @ + 1,
                          !.tx.executed = Append(@, version),
                          !.tx.recorded = Append(@, version),
                          !.done = Append(@, version)]
           \/ MigFail("failed to apply migration")
           \/ MigFail("failed to update version record")
    /\ MigUnchanged

\* one iteration of the loop over migrations: a version not above the
\* current one is skipped; otherwise Execute and updateVersionRecord run,
\* and the first of them to fail ends the run
MigApply ==
    /\ mig.pc = "loop"
    /\ mig.i <= Len(Migrations)
    /\ LET version == Migrations[mig.i]
       IN  IF version <= mig.cur
           THEN mig' = [mig EXCEPT !.i = @ + 1]
           ELSE \/ mig' = [mig EXCEPT
                              !.i = @ + 1,
                              !.tx.executed = Append(@, version),
                              !.tx.recorded = Append(@, version),
                              !.done = Append(@, version)]
                \/ MigFail("failed to apply migration")
                \/ MigFail("failed to update version record")
    /\ MigUnchanged

\* tx.Commit() after the loop
MigCommit ==
    /\ mig.pc = "loop"
    /\ mig.i > Len(Migrations)
    /\ \/ mig' = [mig EXCEPT !.pc = "returned", !.stored = mig.tx,
                             !.tx = Migrated(<<>>),
                             !.ret = [kind |-> "return", err |-> NilError]]
       \/ MigFail("failed to commit migrations")
    /\ MigUnchanged

\* RunMigrations is called again on the database (the next start of the
\* program); clean tells whether every run so far returned nil
MigRunAgain ==
    /\ mig.pc = "returned"
    /\ mig.runs < MaxRuns
    /\ mig' = [mig EXCEPT
                  !.pc = "called", !.runs = @ + 1, !.before = mig.stored,
                  !.cur = 0, !.i = 1, !.done = <<>>,
                  !.ret = [kind |-> "none", err |-> NilError],
                  !.clean = @ /\ mig.ret.err = NilError]
    /\ MigUnchanged

NextMigrations ==
    \/ MigBegin
    \/ MigCurrentVersion
    \/ MigApply
    \/ MigCommit
    \/ MigRunAgain

SpecMigrations == InitMigrations /\ [][NextMigrations]_vars

\* the versions of the slice above v, in the order of the slice
Above(v) == SelectSeq(Migrations, LAMBDA version : version > v)

\* the sequence is in ascending order
Ascending(versions) ==
    \A j, k \in DOMAIN versions : j < k => versions[j] < versions[k]

\* C25: a run applies, in ascending order, exactly the migrations above the
\* highest version recorded and records each of them; a run after a run that
\* succeeded applies none; and a run that fails leaves the database as it
\* found it.
C25_RunMigrations ==
    mig.pc # "none" =>
        /\ Ascending(mig.done)
        /\ mig.pc # "returned" => mig.stored = mig.before
        /\ (mig.pc = "returned" /\ mig.ret.err = NilError) =>
            /\ mig.done = Above(getCurrentVersion(mig.before.recorded))
            /\ mig.stored.recorded = mig.before.recorded \o mig.done
            /\ mig.stored.executed = mig.before.executed \o mig.done
            /\ (mig.runs > 1 /\ mig.clean) => mig.done = <<>>
        /\ (mig.pc = "returned" /\ mig.ret.err # NilError) =>
            mig.stored = mig.before

\* a second run, after a first that applied both migrations, applied none
C25_Witness ==
    /\ mig.pc = "returned"
    /\ mig.runs = 2
    /\ mig.clean
    /\ mig.ret.err = NilError
    /\ mig.done = <<>>
    /\ mig.stored = Migrated(Migrations)

====
